---- MODULE Spec2Model ----
(***************************************************************************)
(* Timeline Composition Engine of the Modular Video Editor: the Store      *)
(* reducer (services/timelineStore.tsx), the drag resolver embedded in     *)
(* components/Timeline/ClipItem.tsx and the clip ordering of the graph     *)
(* compiler (services/ffmpegService.ts).                                   *)
(*                                                                         *)
(* Times are integers counting twentieths of a second: 0.1 s is 2 and 5 s  *)
(* is 100.                                                                 *)
(* Pointer deltas are pixels; handleMouseMove divides them by state.zoom.  *)
(***************************************************************************)
EXTENDS Integers, Sequences, FiniteSets, TLC

VARIABLES
    state,        \* TimelineState held by useReducer
    state2,       \* TimelineState of a second run fed the same commands
    lastAction,   \* the Action most recently handed to dispatch
    nCommands,    \* length of the command log
    drag,         \* refs and closure of the drag session of a ClipItem
    pending,      \* metadata probes of addVideoClip still in flight
    addOrder,     \* ids of the clips in the Store, in the order they were added
    slot,         \* argument/result record of a findNextFreeSlot call
    fold,         \* clip ids in the order exportVideo folded them
    service,      \* fields of the FFmpegService instance and the export under way
    loader,       \* the TimelineProvider's initialClips effect and its loop
    player        \* the refs of PreviewPlayer: stateRef, lastTimeRef, requestRef

vars == <<state, state2, lastAction, nCommands, drag, pending, addOrder, slot, fold,
          service, loader, player>>

----------------------------------------------------------------------------
(* Values *)

Null == "null"
Undefined == "undefined"

\* Math.random().toString(36).substring(7): a short string over [0-9a-z].
\* Some of these strings are canonical array indices ("52319"), the others
\* are ordinary property names.
ArrayIndexIds == {"52319"}
NameIds == {"k3x9q", "q9zt1"}
RandomIds == ArrayIndexIds \cup NameIds

IsArrayIndex(id) == id \in ArrayIndexIds

NumericValue(id) == CASE id = "52319" -> 52319
                      [] OTHER -> -1

Max(a, b) == IF a >= b THEN a ELSE b
Min(a, b) == IF a <= b THEN a ELSE b

\* Bounds of the model
MaxCommands == 4
MaxRunLength == 3
MaxSlotTime == 5
MaxPending == 2
MaxAutoCommands == 7
MaxDragCommands == 3
MaxExports == 2
MaxOrchCommands == 2
MaxEffectRuns == 2
MaxPlayCommands == 5
MaxSessionCommands == 4

\* Program constants, in twentieths of a second unless said otherwise
DEFAULT_DURATION == 600
TrailingMargin == 100
MinClipDuration == 2
TextMaxDuration == 72000
TextClipDuration == 100
ImageClipDuration == 100
InitialZoom == 50
MinZoom == 10
MaxZoom == 200

TrackIds == <<3, 2, 1, 0, -1>>

TrackType(id) == CASE id = 3 -> "overlay"
                   [] id = -1 -> "audio"
                   [] OTHER -> "video"

InitialTracks == [i \in 1..5 |-> [id |-> TrackIds[i], type |-> TrackType(TrackIds[i]),
                                  isMuted |-> FALSE, isHidden |-> FALSE]]

Canvas1080 == [width |-> 1920, height |-> 1080, name |-> "1080p"]
Canvas720 == [width |-> 1280, height |-> 720, name |-> "720p"]

createInitialState ==
    [assets |-> <<>>,
     tracks |-> InitialTracks,
     clips |-> <<>>,
     duration |-> DEFAULT_DURATION,
     currentTime |-> 0,
     isPlaying |-> FALSE,
     selectedClipId |-> Null,
     zoom |-> InitialZoom,
     canvasSize |-> Canvas1080]

----------------------------------------------------------------------------
(* Record<string, T>: a JavaScript object, kept as the sequence of its     *)
(* entries in own-property order (array-index keys in ascending numeric    *)
(* order first, then the other keys in creation order).                    *)

Keys(obj) == {obj[i].id : i \in DOMAIN obj}

Get(obj, id) == obj[CHOOSE i \in DOMAIN obj : obj[i].id = id]

\* e is created before f in own-property order when inserted as a new key
KeyBefore(newId, oldId) ==
    /\ IsArrayIndex(newId)
    /\ (~IsArrayIndex(oldId) \/ NumericValue(newId) < NumericValue(oldId))

\* { ...obj, [id]: value }
SetKey(obj, id, value) ==
    IF id \in Keys(obj)
    THEN [i \in DOMAIN obj |-> IF obj[i].id = id THEN value ELSE obj[i]]
    ELSE LET before == {i \in DOMAIN obj : ~KeyBefore(id, obj[i].id)}
             n == Cardinality(before)
         IN  [i \in 1..(Len(obj) + 1) |->
                 IF i <= n THEN obj[i]
                 ELSE IF i = n + 1 THEN value
                 ELSE obj[i - 1]]

\* delete obj[id]
DeleteKey(obj, id) == SelectSeq(obj, LAMBDA e : e.id # id)

\* Array.prototype.sort with an ascending numeric comparator; key[i] is the
\* number the comparator reads from s[i].  The sort is stable: elements with
\* equal keys keep their order in s.
SortByKey(s, key) ==
    LET pos(i) == 1 + Cardinality({j \in DOMAIN s : key[j] < key[i]})
                    + Cardinality({j \in DOMAIN s : j < i /\ key[j] = key[i]})
    IN  [p \in 1..Len(s) |-> s[CHOOSE i \in DOMAIN s : pos(i) = p]]

\* .sort((a, b) => a.timelineStart - b.timelineStart)
SortByStart(s) == SortByKey(s, [i \in DOMAIN s |-> s[i].timelineStart])

\* .sort((a, b) => b.timelineStart - a.timelineStart)
SortByStartDesc(s) == SortByKey(s, [i \in DOMAIN s |-> 0 - s[i].timelineStart])

\* .sort((a, b) => a.zIndex - b.zIndex)
SortByZIndex(s) == SortByKey(s, [i \in DOMAIN s |-> s[i].zIndex])

\* { ...a, ...b } for two records
Merge(a, b) ==
    [f \in (DOMAIN a) \cup (DOMAIN b) |-> IF f \in DOMAIN b THEN b[f] ELSE a[f]]

----------------------------------------------------------------------------
(* services/timelineStore.tsx *)

EndOf(c) == c.timelineStart + c.duration

\* findNextFreeSlot that scans the clips in object order, without the sort
findNextFreeSlot_Unsorted(clips, trackId, duration, preferredStart) ==
    LET trackClips == SelectSeq(clips, LAMBDA c : c.trackId = trackId)
        scan[k \in 0..Len(trackClips)] ==
            IF k = 0 THEN preferredStart
            ELSE LET proposedStart == scan[k - 1]
                     clip == trackClips[k]
                     clipEnd == clip.timelineStart + clip.duration
                     newEnd == proposedStart + duration
                 IN  IF clip.timelineStart < newEnd /\ clipEnd > proposedStart
                     THEN clipEnd
                     ELSE proposedStart
    IN  scan[Len(trackClips)]

findNextFreeSlot(clips, trackId, duration, preferredStart) ==
    LET trackClips == SortByStart(SelectSeq(clips, LAMBDA c : c.trackId = trackId))
        \* the value of proposedStart after the first k iterations of the loop
        scan[k \in 0..Len(trackClips)] ==
            IF k = 0 THEN preferredStart
            ELSE LET proposedStart == scan[k - 1]
                     clip == trackClips[k]
                     clipEnd == clip.timelineStart + clip.duration
                     newEnd == proposedStart + duration
                 IN  IF clip.timelineStart < newEnd /\ clipEnd > proposedStart
                     THEN clipEnd
                     ELSE proposedStart
    IN  scan[Len(trackClips)]

DEFAULT_TEXT_DATA ==
    [content |-> "Double Click to Edit", fontSize |-> 40, color |-> "#ffffff",
     align |-> "center"]

\* the Clip object literal built by ADD_CLIP_SMART and by addClipToTimeline;
\* the optional textData and transition are sequences of no or one value
NewClip(clipId, assetId, trackId, type, timelineStart, duration) ==
    [id |-> clipId,
     assetId |-> assetId,
     trackId |-> trackId,
     type |-> type,
     timelineStart |-> timelineStart,
     inPoint |-> 0,
     duration |-> duration,
     zIndex |-> trackId,
     textData |-> IF type = "TEXT" THEN <<DEFAULT_TEXT_DATA>> ELSE <<>>,
     volume |-> 1,
     transition |-> <<[inDuration |-> 0, outDuration |-> 0]>>]

\* case 'ADD_ASSET'
ReduceAddAsset(s, asset) ==
    [s EXCEPT !.assets = SetKey(s.assets, asset.id, asset)]

\* case 'ADD_CLIP'
ReduceAddClip(s, clip) ==
    [s EXCEPT !.clips = SetKey(s.clips, clip.id, clip),
              !.duration = Max(s.duration, clip.timelineStart + clip.duration
                                           + TrailingMargin),
              !.selectedClipId = clip.id]

\* ADD_CLIP_SMART that puts the clip at the playhead without the slot search
ReduceAddClipSmart_AtPlayhead(s, p, clipId) ==
    LET newClip == NewClip(clipId, p.assetId, p.trackId, p.type, s.currentTime, p.duration)
    IN  [s EXCEPT !.clips = SetKey(s.clips, clipId, newClip),
                  !.duration = Max(s.duration, s.currentTime + p.duration + TrailingMargin),
                  !.selectedClipId = clipId]

\* case 'ADD_CLIP_SMART'; clipId is Math.random().toString(36).substring(7)
ReduceAddClipSmart(s, p, clipId) ==
    LET timelineStart == findNextFreeSlot(s.clips, p.trackId, p.duration, s.currentTime)
        newClip == NewClip(clipId, p.assetId, p.trackId, p.type, timelineStart, p.duration)
    IN  [s EXCEPT !.clips = SetKey(s.clips, clipId, newClip),
                  !.duration = Max(s.duration, timelineStart + p.duration + TrailingMargin),
                  !.selectedClipId = clipId]

\* UPDATE_CLIP that merges the changes but forgets to extend the duration
ReduceUpdateClip_KeepDuration(s, id, changes) ==
    IF id \notin Keys(s.clips) THEN s
    ELSE [s EXCEPT !.clips = SetKey(s.clips, id, Merge(Get(s.clips, id), changes))]

\* UPDATE_CLIP without the test for a missing clip: the changes become the
\* clip
ReduceUpdateClip_NoGuard(s, id, changes) ==
    IF id \notin Keys(s.clips)
    THEN [s EXCEPT !.clips = SetKey(s.clips, id, Merge([id |-> id], changes))]
    ELSE LET updatedClip == Merge(Get(s.clips, id), changes)
         IN  [s EXCEPT !.clips = SetKey(s.clips, id, updatedClip),
                       !.duration = Max(s.duration, updatedClip.timelineStart
                                                    + updatedClip.duration + TrailingMargin)]

\* case 'UPDATE_CLIP'
ReduceUpdateClip(s, id, changes) ==
    IF id \notin Keys(s.clips) THEN s
    ELSE LET updatedClip == Merge(Get(s.clips, id), changes)
         IN  [s EXCEPT !.clips = SetKey(s.clips, id, updatedClip),
                       !.duration = Max(s.duration, updatedClip.timelineStart
                                                    + updatedClip.duration + TrailingMargin)]

\* REMOVE_CLIP that leaves the selection alone
ReduceRemoveClip_KeepSelection(s, id) ==
    [s EXCEPT !.clips = DeleteKey(s.clips, id)]

\* case 'REMOVE_CLIP'
ReduceRemoveClip(s, id) ==
    [s EXCEPT !.clips = DeleteKey(s.clips, id),
              !.selectedClipId = Null]

\* case 'SET_PLAYHEAD'
ReduceSetPlayhead(s, time) ==
    [s EXCEPT !.currentTime = Max(0, time)]

\* SET_ZOOM with the upper clamp only
ReduceSetZoom_NoFloor(s, zoom) ==
    [s EXCEPT !.zoom = Min(MaxZoom, zoom)]

\* case 'SET_ZOOM'
ReduceSetZoom(s, zoom) ==
    [s EXCEPT !.zoom = Max(MinZoom, Min(MaxZoom, zoom))]

\* UPDATE_TRACK that creates the track when no track has the id
ReduceUpdateTrack_Upsert(s, id, changes) ==
    IF \E i \in DOMAIN s.tracks : s.tracks[i].id = id
    THEN [s EXCEPT !.tracks = [i \in DOMAIN s.tracks |->
                                  IF s.tracks[i].id = id
                                  THEN Merge(s.tracks[i], changes)
                                  ELSE s.tracks[i]]]
    ELSE [s EXCEPT !.tracks = Append(s.tracks, Merge([id |-> id], changes))]

\* case 'UPDATE_TRACK'
ReduceUpdateTrack(s, id, changes) ==
    [s EXCEPT !.tracks = [i \in DOMAIN s.tracks |->
                             IF s.tracks[i].id = id
                             THEN Merge(s.tracks[i], changes)
                             ELSE s.tracks[i]]]

\* timelineReducer(state, action); rnd is the string Math.random() yields
timelineReducer(s, a, rnd) ==
    CASE a.type = "ADD_ASSET" -> ReduceAddAsset(s, a.payload)
      [] a.type = "ADD_CLIP" -> ReduceAddClip(s, a.payload)
      [] a.type = "ADD_CLIP_SMART" -> ReduceAddClipSmart(s, a.payload, rnd)
      [] a.type = "UPDATE_CLIP" -> ReduceUpdateClip(s, a.payload.id, a.payload.changes)
      [] a.type = "REMOVE_CLIP" -> ReduceRemoveClip(s, a.payload)
      [] a.type = "SET_PLAYHEAD" -> ReduceSetPlayhead(s, a.payload)
      [] a.type = "TOGGLE_PLAYBACK" -> [s EXCEPT !.isPlaying = ~s.isPlaying]
      [] a.type = "SELECT_CLIP" -> [s EXCEPT !.selectedClipId = a.payload]
      [] a.type = "SET_ZOOM" -> ReduceSetZoom(s, a.payload)
      [] a.type = "UPDATE_TRACK" -> ReduceUpdateTrack(s, a.payload.id, a.payload.changes)
      [] a.type = "SET_CANVAS_SIZE" -> [s EXCEPT !.canvasSize = a.payload]
      [] OTHER -> s

\* Order in which the clips now in the Store were added: an add appends the
\* id (an id added again counts as added last), a removal drops it.
AddOrderAfter(order, a, rnd) ==
    LET Without(id) == SelectSeq(order, LAMBDA x : x # id)
    IN  CASE a.type = "ADD_CLIP" -> Append(Without(a.payload.id), a.payload.id)
          [] a.type = "ADD_CLIP_SMART" -> Append(Without(rnd), rnd)
          [] a.type = "REMOVE_CLIP" -> Without(a.payload)
          [] OTHER -> order

\* dispatch(action): the reducer runs on the state the Store holds now
Dispatch(a) ==
    \E rnd \in RandomIds :
        /\ nCommands' = nCommands + 1
        /\ state' = timelineReducer(state, a, rnd)
        /\ addOrder' = AddOrderAfter(addOrder, a, rnd)
        /\ lastAction' = a

----------------------------------------------------------------------------
(* The Store driven by commands: every Action of the union type, with      *)
(* payloads drawn from small sets.                                         *)

AssetIds == {"k3x9q"}
PayloadTracks == {1, 2}
AddTimes == {0, 520}
AssetDurations == {60}
PlayheadPayloads == {-20, 40}
ZoomPayloads == {5, 300}
UpdateChanges == {[timelineStart |-> 540], [duration |-> 40, inPoint |-> 20],
                  [trackId |-> 2, zIndex |-> 2]}
TrackPayloadIds == {1, 7}

NoAction == [type |-> "@@INIT"]
NoDrag == [mode |-> Null]
NoSlot == [called |-> FALSE]
NoFold == [done |-> FALSE]
NoRun == [pc |-> "idle"]

\* the ffmpegService singleton after construction: ffmpeg is null, nothing
\* is loaded; listeners are the exports whose progress callback is
\* registered on the FFmpeg object
\* PreviewPlayer after its first effects on a paused timeline: stateRef
\* holds the state, lastTimeRef is 0 and no frame is requested; ticks and
\* elapsed keep the number of SET_PLAYHEAD the loop dispatched and the
\* frame time of the last one
NoPlayer == [stateRef |-> createInitialState, lastTime |-> 0, requested |-> FALSE,
             ticks |-> 0, elapsed |-> 0]

\* a TimelineProvider that was given no initialClips
NoLoader == [initialized |-> FALSE, list |-> <<>>, effectRuns |-> 0, batches |-> 0,
             added |-> <<>>]

NoService == [isLoaded |-> FALSE, hasFFmpeg |-> FALSE, fontLoaded |-> FALSE,
              listeners |-> <<>>, nExports |-> 0, run |-> NoRun]

Init ==
    /\ state = createInitialState
    /\ state2 = createInitialState
    /\ lastAction = NoAction
    /\ nCommands = 0
    /\ drag = NoDrag
    /\ pending = <<>>
    /\ addOrder = <<>>
    /\ slot = NoSlot
    /\ fold = NoFold
    /\ service = NoService
    /\ loader = NoLoader
    /\ player = NoPlayer

AddAsset ==
    /\ nCommands < MaxCommands
    /\ \E id \in AssetIds, d \in AssetDurations :
          Dispatch([type |-> "ADD_ASSET",
                    payload |-> [id |-> id, type |-> "video", duration |-> d]])
    /\ UNCHANGED <<state2, drag, pending, slot, fold, service, loader, player>>

\* api.addClipToTimeline(assetId, trackId, time)
AddClip ==
    /\ nCommands < MaxCommands
    /\ \E assetId \in AssetIds, trackId \in PayloadTracks, time \in AddTimes,
          clipId \in RandomIds :
          /\ assetId \in Keys(state.assets)
          /\ LET asset == Get(state.assets, assetId)
                 type == IF asset.type = "video" THEN "VIDEO"
                         ELSE IF asset.type = "audio" THEN "AUDIO" ELSE "IMAGE"
             IN  Dispatch([type |-> "ADD_CLIP",
                           payload |-> NewClip(clipId, assetId, trackId, type, time,
                                               asset.duration)])
    /\ UNCHANGED <<state2, drag, pending, slot, fold, service, loader, player>>

AddClipSmart ==
    /\ nCommands < MaxCommands
    /\ \E trackId \in PayloadTracks :
          Dispatch([type |-> "ADD_CLIP_SMART",
                    payload |-> [assetId |-> Undefined, trackId |-> trackId,
                                 duration |-> TextClipDuration, type |-> "TEXT"]])
    /\ UNCHANGED <<state2, drag, pending, slot, fold, service, loader, player>>

UpdateClip ==
    /\ nCommands < MaxCommands
    /\ \E id \in RandomIds, changes \in UpdateChanges :
          Dispatch([type |-> "UPDATE_CLIP", payload |-> [id |-> id, changes |-> changes]])
    /\ UNCHANGED <<state2, drag, pending, slot, fold, service, loader, player>>

RemoveClip ==
    /\ nCommands < MaxCommands
    /\ \E id \in RandomIds : Dispatch([type |-> "REMOVE_CLIP", payload |-> id])
    /\ UNCHANGED <<state2, drag, pending, slot, fold, service, loader, player>>

SetPlayhead ==
    /\ nCommands < MaxCommands
    /\ \E t \in PlayheadPayloads : Dispatch([type |-> "SET_PLAYHEAD", payload |-> t])
    /\ UNCHANGED <<state2, drag, pending, slot, fold, service, loader, player>>

TogglePlayback ==
    /\ nCommands < MaxCommands
    /\ Dispatch([type |-> "TOGGLE_PLAYBACK"])
    /\ UNCHANGED <<state2, drag, pending, slot, fold, service, loader, player>>

SelectClip ==
    /\ nCommands < MaxCommands
    /\ \E id \in RandomIds \cup {Null} : Dispatch([type |-> "SELECT_CLIP", payload |-> id])
    /\ UNCHANGED <<state2, drag, pending, slot, fold, service, loader, player>>

SetZoom ==
    /\ nCommands < MaxCommands
    /\ \E z \in ZoomPayloads : Dispatch([type |-> "SET_ZOOM", payload |-> z])
    /\ UNCHANGED <<state2, drag, pending, slot, fold, service, loader, player>>

UpdateTrack ==
    /\ nCommands < MaxCommands
    /\ \E id \in TrackPayloadIds :
          Dispatch([type |-> "UPDATE_TRACK",
                    payload |-> [id |-> id, changes |-> [isMuted |-> TRUE]]])
    /\ UNCHANGED <<state2, drag, pending, slot, fold, service, loader, player>>

SetCanvasSize ==
    /\ nCommands < MaxCommands
    /\ Dispatch([type |-> "SET_CANVAS_SIZE", payload |-> Canvas720])
    /\ UNCHANGED <<state2, drag, pending, slot, fold, service, loader, player>>

Next ==
    \/ AddAsset
    \/ AddClip
    \/ AddClipSmart
    \/ UpdateClip
    \/ RemoveClip
    \/ SetPlayhead
    \/ TogglePlayback
    \/ SelectClip
    \/ SetZoom
    \/ UpdateTrack
    \/ SetCanvasSize

Spec == Init /\ [][Next]_vars

----------------------------------------------------------------------------
(* Two runs of the Store fed the same command log *)

ClipPayloads ==
    {NewClip(id, assetId, 1, "VIDEO", 0, d) :
        id \in RandomIds, assetId \in AssetIds, d \in AssetDurations}

Commands ==
    {[type |-> "ADD_ASSET", payload |-> [id |-> id, type |-> "video", duration |-> d]] :
        id \in AssetIds, d \in AssetDurations}
    \cup {[type |-> "ADD_CLIP", payload |-> c] : c \in ClipPayloads}
    \cup {[type |-> "ADD_CLIP_SMART",
           payload |-> [assetId |-> Undefined, trackId |-> t,
                        duration |-> TextClipDuration, type |-> "TEXT"]] : t \in PayloadTracks}
    \cup {[type |-> "UPDATE_CLIP", payload |-> [id |-> id, changes |-> ch]] :
            id \in RandomIds, ch \in UpdateChanges}
    \cup {[type |-> "REMOVE_CLIP", payload |-> id] : id \in RandomIds}
    \cup {[type |-> "SET_PLAYHEAD", payload |-> t] : t \in PlayheadPayloads}
    \cup {[type |-> "TOGGLE_PLAYBACK"]}
    \cup {[type |-> "SELECT_CLIP", payload |-> id] : id \in RandomIds \cup {Null}}
    \cup {[type |-> "SET_ZOOM", payload |-> z] : z \in ZoomPayloads}
    \cup {[type |-> "UPDATE_TRACK", payload |-> [id |-> id, changes |-> [isMuted |-> TRUE]]] :
            id \in TrackPayloadIds}
    \cup {[type |-> "SET_CANVAS_SIZE", payload |-> Canvas720]}

\* the same command applied in both runs; each run makes its own call of
\* Math.random()
ApplyInBothRuns ==
    /\ nCommands < MaxRunLength
    /\ \E a \in Commands, rnd2 \in RandomIds :
          /\ Dispatch(a)
          /\ state2' = timelineReducer(state2, a, rnd2)
    /\ UNCHANGED <<drag, pending, slot, fold, service, loader, player>>

NextPair == ApplyInBothRuns

SpecPair == Init /\ [][NextPair]_vars

----------------------------------------------------------------------------
(* findNextFreeSlot on its own: the Store holds any layout of up to three   *)
(* clips whose intervals do not intersect on a track, and the function is   *)
(* called once with any track, duration and preferred start.               *)

\* no two clips of the object with the same trackId have intersecting
\* [timelineStart, timelineStart + duration) intervals
NonOverlapping(clips) ==
    \A i, j \in DOMAIN clips :
        (i # j /\ clips[i].trackId = clips[j].trackId)
            => \/ clips[i].timelineStart + clips[i].duration <= clips[j].timelineStart
               \/ clips[j].timelineStart + clips[j].duration <= clips[i].timelineStart

SlotTimes == 0..MaxSlotTime
SlotClipDurations == {1, 2, 5}
SlotNewDurations == {1, 3, 5}

SlotClips(id, tracks) ==
    {NewClip(id, Undefined, t, "TEXT", st, d) :
        t \in tracks, st \in SlotTimes, d \in SlotClipDurations}

SlotLayouts ==
    {l \in {<<>>}
           \cup {<<a>> : a \in SlotClips("k3x9q", {1})}
           \cup {<<a, b>> : a \in SlotClips("k3x9q", {1}), b \in SlotClips("q9zt1", {1})}
           \cup {<<a, b, c>> : a \in SlotClips("52319", {1, 2}),
                               b \in SlotClips("k3x9q", {1}),
                               c \in SlotClips("q9zt1", {1})} :
        NonOverlapping(l)}

InitSlot ==
    /\ \E l \in SlotLayouts : state = [createInitialState EXCEPT !.clips = l]
    /\ \E d \in SlotNewDurations, p \in SlotTimes :
          slot = [called |-> FALSE, trackId |-> 1, duration |-> d,
                  preferredStart |-> p, result |-> -1]
    /\ state2 = createInitialState
    /\ lastAction = NoAction
    /\ nCommands = 0
    /\ drag = NoDrag
    /\ pending = <<>>
    /\ addOrder = <<>>
    /\ fold = NoFold
    /\ service = NoService
    /\ loader = NoLoader
    /\ player = NoPlayer

CallFindNextFreeSlot ==
    /\ ~slot.called
    /\ slot' = [slot EXCEPT !.called = TRUE,
                            !.result = findNextFreeSlot(state.clips, slot.trackId,
                                                        slot.duration, slot.preferredStart)]
    /\ UNCHANGED <<state, state2, lastAction, nCommands, drag, pending, addOrder, fold, service, loader, player>>

NextSlot == CallFindNextFreeSlot

SpecSlot == InitSlot /\ [][NextSlot]_vars

\* [t, t + d) intersects the interval of no clip that is on the track
FreeAt(clips, trackId, t, d) ==
    \A i \in DOMAIN clips :
        clips[i].trackId = trackId
            => \/ t + d <= clips[i].timelineStart
               \/ clips[i].timelineStart + clips[i].duration <= t

\* C2: on a track of pairwise non-overlapping clips findNextFreeSlot returns
\* the smallest start s >= preferredStart at which [s, s + duration) meets no
\* clip of the track.
C2_FreeSlotMinimal ==
    slot.called =>
        /\ slot.result >= slot.preferredStart
        /\ FreeAt(state.clips, slot.trackId, slot.result, slot.duration)
        /\ \A t \in slot.preferredStart..(slot.result - 1) :
              ~FreeAt(state.clips, slot.trackId, t, slot.duration)

\* the shape of the spec's example: one clip [0,5) on the track, a new clip
\* of length 5 and preferred start 3 are given start 5
C2_Witness ==
    /\ slot.called
    /\ slot.duration = 5
    /\ slot.preferredStart = 3
    /\ slot.result = 5
    /\ \E i \in DOMAIN state.clips :
          /\ state.clips[i].trackId = 1
          /\ state.clips[i].timelineStart = 0
          /\ state.clips[i].duration = 5
    /\ \A i \in DOMAIN state.clips :
          state.clips[i].trackId = 1 => state.clips[i].timelineStart = 0

----------------------------------------------------------------------------
(* The programmatic insertion API on an empty timeline: addVideoClip waits  *)
(* for the metadata probe before it dispatches, addImageClip and            *)
(* addTextClip dispatch at once; the playhead moves in between.             *)

VideoDurations == {40, 200}
ImageDurations == {ImageClipDuration}
AutoPlayheads == {0, 60, 120}

\* two dispatches made in a row by one callback
DispatchTwo(a, b) ==
    \E rnd \in RandomIds :
        /\ nCommands' = nCommands + 2
        /\ state' = timelineReducer(timelineReducer(state, a, rnd), b, rnd)
        /\ addOrder' = AddOrderAfter(AddOrderAfter(addOrder, a, rnd), b, rnd)
        /\ lastAction' = b

\* addVideoClip up to the await: the id is drawn and getMediaMetadata(url)
\* is started; duration is what the probe is going to resolve with
CallAddVideoClip ==
    /\ Len(pending) < MaxPending
    /\ nCommands + 2 * (Len(pending) + 1) <= MaxAutoCommands
    /\ \E id \in AssetIds, d \in VideoDurations :
          pending' = Append(pending, [id |-> id, duration |-> d])
    /\ UNCHANGED <<state, state2, lastAction, nCommands, drag, addOrder, slot, fold, service, loader, player>>

\* a probe resolves, in any order, and addVideoClip runs to its end
VideoProbeResolved ==
    /\ \E i \in DOMAIN pending :
          /\ DispatchTwo([type |-> "ADD_ASSET",
                          payload |-> [id |-> pending[i].id, type |-> "video",
                                       duration |-> pending[i].duration]],
                         [type |-> "ADD_CLIP_SMART",
                          payload |-> [assetId |-> pending[i].id, trackId |-> 1,
                                       duration |-> pending[i].duration, type |-> "VIDEO"]])
          /\ pending' = [j \in 1..(Len(pending) - 1) |->
                            IF j < i THEN pending[j] ELSE pending[j + 1]]
    /\ UNCHANGED <<state2, drag, slot, fold, service, loader, player>>

CallAddImageClip ==
    /\ nCommands + 2 * (Len(pending) + 1) <= MaxAutoCommands
    /\ \E id \in AssetIds, d \in ImageDurations :
          DispatchTwo([type |-> "ADD_ASSET",
                       payload |-> [id |-> id, type |-> "image", duration |-> d]],
                      [type |-> "ADD_CLIP_SMART",
                       payload |-> [assetId |-> id, trackId |-> 2,
                                    duration |-> d, type |-> "IMAGE"]])
    /\ UNCHANGED <<state2, drag, pending, slot, fold, service, loader, player>>

CallAddTextClip ==
    /\ nCommands + 2 * Len(pending) + 1 <= MaxAutoCommands
    /\ Dispatch([type |-> "ADD_CLIP_SMART",
                 payload |-> [assetId |-> Undefined, trackId |-> 3,
                              duration |-> TextClipDuration, type |-> "TEXT"]])
    /\ UNCHANGED <<state2, drag, pending, slot, fold, service, loader, player>>

SeekPlayhead ==
    /\ nCommands + 2 * Len(pending) + 1 <= MaxAutoCommands
    /\ \E t \in AutoPlayheads : Dispatch([type |-> "SET_PLAYHEAD", payload |-> t])
    /\ UNCHANGED <<state2, drag, pending, slot, fold, service, loader, player>>

NextAuto ==
    \/ CallAddVideoClip
    \/ VideoProbeResolved
    \/ CallAddImageClip
    \/ CallAddTextClip
    \/ SeekPlayhead

SpecAuto == Init /\ [][NextAuto]_vars

\* C3: on a timeline filled only by addVideoClip, addImageClip and
\* addTextClip, with probes resolving in any order and the playhead moving in
\* between, a clip just auto-placed starts at or after the playhead and no
\* two clips of a track overlap.
C3_AutoPlacement ==
    /\ NonOverlapping(state.clips)
    /\ lastAction.type = "ADD_CLIP_SMART"
          => Get(state.clips, state.selectedClipId).timelineStart >= state.currentTime

\* a video clip was placed behind another video clip, past a playhead that
\* was moved, by a probe that overtook one started before it
C3_Witness ==
    /\ lastAction.type = "ADD_CLIP_SMART"
    /\ lastAction.payload.type = "VIDEO"
    /\ state.currentTime > 0
    /\ Get(state.clips, state.selectedClipId).timelineStart > state.currentTime
    /\ \E i \in DOMAIN state.clips :
          /\ state.clips[i].id # state.selectedClipId
          /\ state.clips[i].trackId = 1
    /\ pending # <<>>
    /\ lastAction.payload.duration # pending[1].duration

----------------------------------------------------------------------------
(* The initialClips effect of TimelineProvider: loadInitialClips awaits     *)
(* addVideoClip for one url after the other. The effect runs again when     *)
(* its dependencies change or the provider is mounted twice in a row; the   *)
(* playhead moves while the probes are out.                                 *)

InitialUrls == <<"u1.mp4", "u2.mp4", "u3.mp4">>
InitialLists == {SubSeq(InitialUrls, 1, n) : n \in 0..Len(InitialUrls)}

\* addVideoClip(url, name) up to its await, called for initialClips[index - 1]
StartedProbes(url, index) ==
    {[id |-> id, duration |-> d, url |-> url, index |-> index] :
        id \in NameIds, d \in VideoDurations}

\* the effect without the test of initializedRef
RunInitialClipsEffect_NoRef ==
    /\ loader.effectRuns < MaxEffectRuns
    /\ IF loader.list = <<>>
       THEN /\ loader' = [loader EXCEPT !.effectRuns = @ + 1]
            /\ UNCHANGED pending
       ELSE /\ \E probe \in StartedProbes(loader.list[1], 1) :
                  pending' = Append(pending, probe)
            /\ loader' = [loader EXCEPT !.effectRuns = @ + 1, !.batches = @ + 1,
                                         !.initialized = TRUE]
    /\ UNCHANGED <<state, state2, lastAction, nCommands, drag, addOrder, slot, fold, service, player>>

\* the effect: it returns when initializedRef is set or there is no list,
\* else loadInitialClips() runs to its first await and the ref is set
RunInitialClipsEffect ==
    /\ loader.effectRuns < MaxEffectRuns
    /\ IF loader.initialized \/ loader.list = <<>>
       THEN /\ loader' = [loader EXCEPT !.effectRuns = @ + 1]
            /\ UNCHANGED pending
       ELSE /\ \E probe \in StartedProbes(loader.list[1], 1) :
                  pending' = Append(pending, probe)
            /\ loader' = [loader EXCEPT !.effectRuns = @ + 1, !.batches = @ + 1,
                                         !.initialized = TRUE]
    /\ UNCHANGED <<state, state2, lastAction, nCommands, drag, addOrder, slot, fold, service, player>>

\* getMediaMetadata resolves for a probe that is out: addVideoClip
\* dispatches ADD_ASSET and ADD_CLIP_SMART and returns, and the loop calls
\* addVideoClip for the next url; loader.added keeps where the clip was put
InitialProbeResolved ==
    /\ nCommands + 2 <= MaxAutoCommands
    /\ \E i \in DOMAIN pending :
          LET p == pending[i]
              rest == [j \in 1..(Len(pending) - 1) |->
                          IF j < i THEN pending[j] ELSE pending[j + 1]]
          IN  /\ DispatchTwo([type |-> "ADD_ASSET",
                              payload |-> [id |-> p.id, type |-> "video",
                                           duration |-> p.duration, url |-> p.url]],
                             [type |-> "ADD_CLIP_SMART",
                              payload |-> [assetId |-> p.id, trackId |-> 1,
                                           duration |-> p.duration, type |-> "VIDEO"]])
              /\ LET clip == Get(state'.clips, state'.selectedClipId)
                 IN  loader' = [loader EXCEPT
                         !.added = Append(@, [url |-> p.url, clipId |-> clip.id,
                                              trackId |-> clip.trackId,
                                              timelineStart |-> clip.timelineStart,
                                              end |-> EndOf(clip)])]
              /\ IF p.index < Len(loader.list)
                 THEN \E probe \in StartedProbes(loader.list[p.index + 1], p.index + 1) :
                          pending' = Append(rest, probe)
                 ELSE pending' = rest
    /\ UNCHANGED <<state2, drag, slot, fold, service, player>>

InitInitial ==
    /\ state = createInitialState
    /\ state2 = createInitialState
    /\ lastAction = NoAction
    /\ nCommands = 0
    /\ drag = NoDrag
    /\ pending = <<>>
    /\ addOrder = <<>>
    /\ slot = NoSlot
    /\ fold = NoFold
    /\ service = NoService
    /\ \E list \in InitialLists : loader = [NoLoader EXCEPT !.list = list]
    /\ player = NoPlayer

NextInitial ==
    \/ RunInitialClipsEffect
    \/ InitialProbeResolved
    \/ SeekPlayhead

SpecInitial == InitInitial /\ [][NextInitial]_vars

\* the ids Math.random gave the clips of the batch are pairwise different
DistinctClipIds ==
    \A k, l \in DOMAIN loader.added :
        k # l => loader.added[k].clipId # loader.added[l].clipId

----------------------------------------------------------------------------
(* components/PreviewPlayer.tsx: the playback loop. animate runs in an      *)
(* animation frame and reads the state from stateRef, which an effect sets  *)
(* after the render; the frame and the effect run in either order.          *)

\* time - lastTimeRef.current of a frame, in twentieths of a second
ElapsedTimes == {1, 2, 40}

\* Math.min(delta, 0.1)
MaxTickDelta == 2

\* the positions handleSeek and the rewind button put the playhead at
PlaySeekTimes == {0, 597}

\* the effects of PreviewPlayer after a render: stateRef.current = state,
\* and when isPlaying has changed the loop is started or stopped
RunPlayerEffects ==
    /\ player.stateRef # state
    /\ player' = [player EXCEPT
            !.stateRef = state,
            !.lastTime = IF state.isPlaying = player.stateRef.isPlaying THEN @
                         ELSE IF state.isPlaying THEN 1 ELSE 0,
            !.requested = IF state.isPlaying = player.stateRef.isPlaying THEN @
                          ELSE state.isPlaying]
    /\ UNCHANGED <<state, state2, lastAction, nCommands, drag, pending, addOrder, slot,
                   fold, service, loader>>

\* the time animate dispatches
TickTime(cur, elapsed) ==
    LET newTime == cur.currentTime + Min(elapsed, MaxTickDelta)
    IN  IF newTime >= cur.duration THEN 0 ELSE newTime

\* animate(time), the callback of the frame that was requested
Animate ==
    /\ player.requested
    /\ LET cur == player.stateRef
       IN  IF ~cur.isPlaying
           THEN /\ player' = [player EXCEPT !.lastTime = 0, !.requested = FALSE]
                /\ UNCHANGED <<state, lastAction, nCommands, addOrder>>
           ELSE IF player.lastTime = 0
           THEN /\ player' = [player EXCEPT !.lastTime = 1]
                /\ UNCHANGED <<state, lastAction, nCommands, addOrder>>
           ELSE /\ nCommands < MaxPlayCommands
                /\ \E elapsed \in ElapsedTimes :
                      /\ Dispatch([type |-> "SET_PLAYHEAD",
                                   payload |-> TickTime(cur, elapsed)])
                      /\ player' = [player EXCEPT !.ticks = @ + 1,
                                                  !.elapsed = elapsed]
    /\ UNCHANGED <<state2, drag, pending, slot, fold, service, loader>>

\* the play / pause button
PlayPause ==
    /\ nCommands < MaxPlayCommands
    /\ Dispatch([type |-> "TOGGLE_PLAYBACK"])
    /\ UNCHANGED <<state2, drag, pending, slot, fold, service, loader, player>>

\* handleSeek and the rewind button
PlaySeek ==
    /\ nCommands < MaxPlayCommands
    /\ \E t \in PlaySeekTimes : Dispatch([type |-> "SET_PLAYHEAD", payload |-> t])
    /\ UNCHANGED <<state2, drag, pending, slot, fold, service, loader, player>>

NextPlay ==
    \/ RunPlayerEffects
    \/ Animate
    \/ PlayPause
    \/ PlaySeek

SpecPlay == Init /\ [][NextPlay]_vars

\* a step of animate that dispatched, made while the Store is playing
PlaybackTick == player'.ticks = player.ticks + 1 /\ state.isPlaying

\* C29: while the Store is playing, a tick puts the playhead at
\* currentTime + min(elapsed, 0.1 s) when that is before state.duration and
\* at 0 otherwise; after it 0 <= currentTime < duration, the playhead has
\* moved forward by 0.1 s at most, and isPlaying is still true.
C29_PlaybackTick ==
    [][PlaybackTick =>
          /\ state'.currentTime = TickTime(state, player'.elapsed)
          /\ 0 <= state'.currentTime
          /\ state'.currentTime < state'.duration
          /\ state'.currentTime - state.currentTime <= MaxTickDelta
          /\ state'.isPlaying]_vars

----------------------------------------------------------------------------
(* components/Timeline/ClipItem.tsx: the drag session of a clip.            *)
(* handleMouseDown registers the handleMouseMove of the render it belongs  *)
(* to, so every move of the session reads the clip and the state of that   *)
(* render (drag.clip, drag.view) and the values saved in the refs          *)
(* (drag.initial).                                                         *)

\* deltaX / state.zoom, in twentieths of a second
DeltaSec(deltaX, zoom) == (deltaX * 20) \div zoom

\* the pointer row of a render that has no timeline rectangle
NoRow == [hasRect |-> FALSE, index |-> 2]

\* state.tracks[targetTrackIndex].id when the pointer row is a valid index
\* and the timeline rectangle is known, else the track the drag began on
TargetTrack(view, row, trackId) ==
    IF row.hasRect /\ row.index >= 0 /\ row.index < Len(view.tracks)
    THEN view.tracks[row.index + 1].id
    ELSE trackId

\* MOVE branch without the clamp to the end of a neighbour
MoveProposal_NoBackwardClamp(view, clip, initial, deltaSec, row) ==
    LET start == initial.start
        duration == initial.duration
        newTrackId == TargetTrack(view, row, initial.trackId)
        proposedStart == Max(0, start + deltaSec)
        proposedEnd == proposedStart + duration
        otherClips == SortByStart(SelectSeq(view.clips,
                          LAMBDA c : c.trackId = newTrackId /\ c.id # clip.id))
        \* validStart after the first k iterations of the loop
        valid[k \in 0..Len(otherClips)] ==
            IF k = 0 THEN proposedStart
            ELSE LET other == otherClips[k]
                     otherEnd == other.timelineStart + other.duration
                     isOverlapping == proposedStart < otherEnd
                                      /\ proposedEnd > other.timelineStart
                 IN  IF ~isOverlapping THEN valid[k - 1]
                     ELSE IF start < other.timelineStart
                          THEN Min(valid[k - 1], other.timelineStart - duration)
                          ELSE valid[k - 1]
    IN  [timelineStart |-> valid[Len(otherClips)],
         trackId |-> newTrackId,
         zIndex |-> newTrackId]

\* MOVE branch of handleMouseMove
MoveProposal(view, clip, initial, deltaSec, row) ==
    LET start == initial.start
        duration == initial.duration
        newTrackId == TargetTrack(view, row, initial.trackId)
        proposedStart == Max(0, start + deltaSec)
        proposedEnd == proposedStart + duration
        otherClips == SortByStart(SelectSeq(view.clips,
                          LAMBDA c : c.trackId = newTrackId /\ c.id # clip.id))
        \* validStart after the first k iterations of the loop
        valid[k \in 0..Len(otherClips)] ==
            IF k = 0 THEN proposedStart
            ELSE LET other == otherClips[k]
                     otherEnd == other.timelineStart + other.duration
                     isOverlapping == proposedStart < otherEnd
                                      /\ proposedEnd > other.timelineStart
                 IN  IF ~isOverlapping THEN valid[k - 1]
                     ELSE IF start < other.timelineStart
                          THEN Min(valid[k - 1], other.timelineStart - duration)
                          ELSE Max(valid[k - 1], otherEnd)
    IN  [timelineStart |-> valid[Len(otherClips)],
         trackId |-> newTrackId,
         zIndex |-> newTrackId]

\* TRIM_START branch without the clamp to the preceding clip
TrimStartProposal_NoPrevClamp(view, clip, initial, deltaSec) ==
    LET start == initial.start
        duration == initial.duration
        inPoint == initial.inPoint
        inPoint1 == inPoint + deltaSec
        duration1 == duration - deltaSec
        \* if (proposedInPoint < 0)
        inPoint2 == IF inPoint1 < 0 THEN 0 ELSE inPoint1
        duration2 == IF inPoint1 < 0 THEN duration + inPoint ELSE duration1
        \* if (proposedDuration < 0.1)
        inPoint3 == IF duration2 < MinClipDuration
                    THEN inPoint + (duration - MinClipDuration) ELSE inPoint2
        duration3 == IF duration2 < MinClipDuration THEN MinClipDuration ELSE duration2
        start3 == start + (inPoint3 - inPoint)
        otherClips == SelectSeq(view.clips,
                          LAMBDA c : c.trackId = clip.trackId /\ c.id # clip.id)
        before == SortByStartDesc(SelectSeq(otherClips,
                          LAMBDA c : c.timelineStart + c.duration <= start))
        hasPrev == before # <<>>
        prevEnd == before[1].timelineStart + before[1].duration
        clampPrev == FALSE
        diff4 == prevEnd - start3
        start4 == IF clampPrev THEN prevEnd ELSE start3
        inPoint4 == IF clampPrev THEN inPoint3 + diff4 ELSE inPoint3
        duration4 == IF clampPrev THEN duration3 - diff4 ELSE duration3
        \* if (proposedStart < 0)
        diff5 == 0 - start4
        start5 == IF start4 < 0 THEN 0 ELSE start4
        inPoint5 == IF start4 < 0 THEN inPoint4 + diff5 ELSE inPoint4
        duration5 == IF start4 < 0 THEN duration4 - diff5 ELSE duration4
    IN  [inPoint |-> inPoint5, duration |-> duration5, timelineStart |-> start5]

\* TRIM_START branch whose inPoint floor leaves the duration as proposed
TrimStartProposal_FloorKeepsDuration(view, clip, initial, deltaSec) ==
    LET start == initial.start
        duration == initial.duration
        inPoint == initial.inPoint
        inPoint1 == inPoint + deltaSec
        duration1 == duration - deltaSec
        \* if (proposedInPoint < 0)
        inPoint2 == IF inPoint1 < 0 THEN 0 ELSE inPoint1
        duration2 == duration1
        \* if (proposedDuration < 0.1)
        inPoint3 == IF duration2 < MinClipDuration
                    THEN inPoint + (duration - MinClipDuration) ELSE inPoint2
        duration3 == IF duration2 < MinClipDuration THEN MinClipDuration ELSE duration2
        start3 == start + (inPoint3 - inPoint)
        otherClips == SelectSeq(view.clips,
                          LAMBDA c : c.trackId = clip.trackId /\ c.id # clip.id)
        before == SortByStartDesc(SelectSeq(otherClips,
                          LAMBDA c : c.timelineStart + c.duration <= start))
        hasPrev == before # <<>>
        prevEnd == before[1].timelineStart + before[1].duration
        clampPrev == hasPrev /\ start3 < prevEnd
        diff4 == prevEnd - start3
        start4 == IF clampPrev THEN prevEnd ELSE start3
        inPoint4 == IF clampPrev THEN inPoint3 + diff4 ELSE inPoint3
        duration4 == IF clampPrev THEN duration3 - diff4 ELSE duration3
        \* if (proposedStart < 0)
        diff5 == 0 - start4
        start5 == IF start4 < 0 THEN 0 ELSE start4
        inPoint5 == IF start4 < 0 THEN inPoint4 + diff5 ELSE inPoint4
        duration5 == IF start4 < 0 THEN duration4 - diff5 ELSE duration4
    IN  [inPoint |-> inPoint5, duration |-> duration5, timelineStart |-> start5]

\* TRIM_START branch of handleMouseMove
TrimStartProposal(view, clip, initial, deltaSec) ==
    LET start == initial.start
        duration == initial.duration
        inPoint == initial.inPoint
        inPoint1 == inPoint + deltaSec
        duration1 == duration - deltaSec
        \* if (proposedInPoint < 0)
        inPoint2 == IF inPoint1 < 0 THEN 0 ELSE inPoint1
        duration2 == IF inPoint1 < 0 THEN duration + inPoint ELSE duration1
        \* if (proposedDuration < 0.1)
        inPoint3 == IF duration2 < MinClipDuration
                    THEN inPoint + (duration - MinClipDuration) ELSE inPoint2
        duration3 == IF duration2 < MinClipDuration THEN MinClipDuration ELSE duration2
        start3 == start + (inPoint3 - inPoint)
        otherClips == SelectSeq(view.clips,
                          LAMBDA c : c.trackId = clip.trackId /\ c.id # clip.id)
        before == SortByStartDesc(SelectSeq(otherClips,
                          LAMBDA c : c.timelineStart + c.duration <= start))
        hasPrev == before # <<>>
        prevEnd == before[1].timelineStart + before[1].duration
        clampPrev == hasPrev /\ start3 < prevEnd
        diff4 == prevEnd - start3
        start4 == IF clampPrev THEN prevEnd ELSE start3
        inPoint4 == IF clampPrev THEN inPoint3 + diff4 ELSE inPoint3
        duration4 == IF clampPrev THEN duration3 - diff4 ELSE duration3
        \* if (proposedStart < 0)
        diff5 == 0 - start4
        start5 == IF start4 < 0 THEN 0 ELSE start4
        inPoint5 == IF start4 < 0 THEN inPoint4 + diff5 ELSE inPoint4
        duration5 == IF start4 < 0 THEN duration4 - diff5 ELSE duration4
    IN  [inPoint |-> inPoint5, duration |-> duration5, timelineStart |-> start5]

\* maxDuration of handleMouseMove
MaxDurationOf(view, clip, initial) ==
    IF clip.assetId # Undefined
    THEN IF clip.assetId \in Keys(view.assets)
         THEN Get(view.assets, clip.assetId).duration
         ELSE initial.duration
    ELSE TextMaxDuration

\* TRIM_END branch without the clamp to the following clip
TrimEndProposal_NoNextClamp(view, clip, initial, deltaSec) ==
    LET start == initial.start
        duration == initial.duration
        inPoint == initial.inPoint
        maxDuration == MaxDurationOf(view, clip, initial)
        duration1 == duration + deltaSec
        duration2 == IF inPoint + duration1 > maxDuration
                     THEN maxDuration - inPoint ELSE duration1
        duration3 == IF duration2 < MinClipDuration THEN MinClipDuration ELSE duration2
        otherClips == SelectSeq(view.clips,
                          LAMBDA c : c.trackId = clip.trackId /\ c.id # clip.id)
        after == SortByStart(SelectSeq(otherClips,
                          LAMBDA c : c.timelineStart >= start + duration))
        hasNext == FALSE
        duration4 == IF hasNext /\ start + duration3 > after[1].timelineStart
                     THEN after[1].timelineStart - start ELSE duration3
    IN  [duration |-> duration4]

\* TRIM_END branch of handleMouseMove
TrimEndProposal(view, clip, initial, deltaSec) ==
    LET start == initial.start
        duration == initial.duration
        inPoint == initial.inPoint
        maxDuration == MaxDurationOf(view, clip, initial)
        duration1 == duration + deltaSec
        duration2 == IF inPoint + duration1 > maxDuration
                     THEN maxDuration - inPoint ELSE duration1
        duration3 == IF duration2 < MinClipDuration THEN MinClipDuration ELSE duration2
        otherClips == SelectSeq(view.clips,
                          LAMBDA c : c.trackId = clip.trackId /\ c.id # clip.id)
        after == SortByStart(SelectSeq(otherClips,
                          LAMBDA c : c.timelineStart >= start + duration))
        hasNext == after # <<>>
        duration4 == IF hasNext /\ start + duration3 > after[1].timelineStart
                     THEN after[1].timelineStart - start ELSE duration3
    IN  [duration |-> duration4]

\* handleMouseDown(e, mode) of the ClipItem rendered for clip id
HandleMouseDown ==
    /\ drag.mode = Null
    /\ nCommands < MaxDragCommands
    /\ \E id \in Keys(state.clips), mode \in {"MOVE", "TRIM_START", "TRIM_END"} :
          LET clip == Get(state.clips, id)
          IN  /\ Dispatch([type |-> "SELECT_CLIP", payload |-> id])
              /\ drag' = [mode |-> mode,
                          initial |-> [start |-> clip.timelineStart,
                                       duration |-> clip.duration,
                                       inPoint |-> clip.inPoint,
                                       trackId |-> clip.trackId],
                          clip |-> clip,
                          view |-> state,
                          pointer |-> [deltaX |-> 0, row |-> NoRow]]
    /\ UNCHANGED <<state2, pending, slot, fold, service, loader, player>>

\* the changes handleMouseMove proposes for a pointer deltaX pixels from
\* where the drag began, over track row row.index (hasRect: the timeline
\* rectangle was known to the render)
Proposal(deltaX, row) ==
    LET deltaSec == DeltaSec(deltaX, drag.view.zoom)
    IN  CASE drag.mode = "MOVE" ->
                MoveProposal(drag.view, drag.clip, drag.initial, deltaSec, row)
          [] drag.mode = "TRIM_START" ->
                TrimStartProposal(drag.view, drag.clip, drag.initial, deltaSec)
          [] drag.mode = "TRIM_END" ->
                TrimEndProposal(drag.view, drag.clip, drag.initial, deltaSec)

DragDeltaXs == {-6, 0, 1, 12}

DragRows == {NoRow}
            \cup {[hasRect |-> TRUE, index |-> i] : i \in {-1, 1, 2, 5}}

\* the body of handleMouseMove(e) past the mode test: the proposal is
\* computed from the state and clip of the render the handler was created
\* in and dispatched; drag.pointer keeps the event it was called with
DispatchProposal(deltaXs, rows) ==
    \E deltaX \in deltaXs, row \in rows :
        /\ (deltaX * 20) % drag.view.zoom = 0
        /\ Dispatch([type |-> "UPDATE_CLIP",
                     payload |-> [id |-> drag.clip.id,
                                  changes |-> Proposal(deltaX, row)]])
        /\ drag' = [drag EXCEPT !.pointer = [deltaX |-> deltaX, row |-> row]]

\* handleMouseMove(e)
HandleMouseMove ==
    /\ drag.mode # Null
    /\ nCommands < MaxDragCommands
    /\ DispatchProposal(DragDeltaXs, DragRows)
    /\ UNCHANGED <<state2, pending, slot, fold, service, loader, player>>

\* handleMouseUp()
HandleMouseUp ==
    /\ drag.mode # Null
    /\ drag' = NoDrag
    /\ UNCHANGED <<state, state2, lastAction, nCommands, pending, addOrder, slot, fold, service, loader, player>>

\* The timelines the drag sessions start from: a video clip, a text clip
\* and a second video clip laid out without overlap on tracks 1 and 2.
DragAsset == [id |-> "k3x9q", type |-> "video", duration |-> 12]

\* an image asset of 0.3 s, as addImageClip(url, name, 0.3) creates it
DragImageAsset == [id |-> "52319", type |-> "image", duration |-> 6]

\* a video asset of 0.05 s, shorter than the 0.1 s floor of the trims
DragShortAsset == [id |-> "q9zt1", type |-> "video", duration |-> 1]

DragAssets == <<DragImageAsset, DragAsset, DragShortAsset>>

\* the third clip of a layout: a video clip cut from the 0.6 s asset, an
\* image clip over its whole asset, or the whole 0.05 s video
DragThirdClips(trackId, start) ==
    {[NewClip("q9zt1", "k3x9q", trackId, "VIDEO", start, 6) EXCEPT !.inPoint = 2],
     NewClip("q9zt1", "52319", trackId, "IMAGE", start, 6),
     NewClip("q9zt1", "q9zt1", trackId, "VIDEO", start, 1)}

\* 20 px per second, where one pixel is one twentieth of a second
DragZoom == 20

DragLayouts ==
    {l \in {<<[NewClip("52319", "k3x9q", 1, "VIDEO", sa, 6) EXCEPT !.inPoint = 2 * sa],
              NewClip("k3x9q", Undefined, 1, "TEXT", sb, 4),
              c>> :
                sa \in {0, 1}, sb \in {7, 9},
                c \in UNION {DragThirdClips(tc, sc) : tc \in {1, 2}, sc \in {0, 14}}} :
        NonOverlapping(l)}

InitDrag ==
    /\ \E l \in DragLayouts :
          state = [createInitialState EXCEPT !.clips = l, !.assets = DragAssets,
                                              !.zoom = DragZoom]
    /\ state2 = createInitialState
    /\ lastAction = NoAction
    /\ nCommands = 0
    /\ drag = NoDrag
    /\ pending = <<>>
    /\ addOrder = <<>>
    /\ slot = NoSlot
    /\ fold = NoFold
    /\ service = NoService
    /\ loader = NoLoader
    /\ player = NoPlayer

NextDrag ==
    \/ HandleMouseDown
    \/ HandleMouseMove
    \/ HandleMouseUp

SpecDrag == InitDrag /\ [][NextDrag]_vars

----------------------------------------------------------------------------
(* A drag session with the rest of the editor at work: a metadata probe of *)
(* addVideoClip that was out when the session began resolves, and the      *)
(* Delete key removes the selected clip.                                   *)

\* the pointer events of a session: 6 px to the left or back where it
\* began, over the row of track 1 or with no timeline rectangle
SessionDeltaXs == {-6, 0}

SessionRows == {NoRow, [hasRect |-> TRUE, index |-> 2]}

\* handleMouseMove(e) of a session that other commands interleave with
SessionMouseMove ==
    /\ drag.mode # Null
    /\ nCommands < MaxSessionCommands
    /\ DispatchProposal(SessionDeltaXs, SessionRows)
    /\ UNCHANGED <<state2, pending, slot, fold, service, loader, player>>

\* Timeline.tsx handleKeyDown for Delete / Backspace. Removing the dragged
\* clip unmounts its ClipItem: the cleanup effect removes the handlers of
\* the first render, which are the registered ones only when the mouse went
\* down in that render; otherwise the session's listeners stay on document
HandleKeyDown ==
    /\ state.selectedClipId # Null
    /\ nCommands < MaxSessionCommands
    /\ Dispatch([type |-> "REMOVE_CLIP", payload |-> state.selectedClipId])
    /\ IF drag.mode # Null /\ drag.clip.id = state.selectedClipId
       THEN drag' \in {drag, NoDrag}
       ELSE drag' = drag
    /\ UNCHANGED <<state2, pending, slot, fold, service, loader, player>>

SessionProbes == {<<>>} \cup {<<[id |-> "q9zt1", duration |-> d]>> : d \in {4, 40}}

\* the layouts of a session: the video clip at 0.05 s on track 1 and the
\* third clip on track 2, so that one id of RandomIds is still free
SessionLayouts ==
    {<<l[1], l[3]>> : l \in {d \in DragLayouts : d[1].timelineStart = 1
                                                    /\ d[3].trackId = 2}}

InitSession ==
    /\ \E l \in SessionLayouts :
          state = [createInitialState EXCEPT !.clips = l, !.assets = DragAssets,
                                              !.zoom = DragZoom]
    /\ state2 = createInitialState
    /\ lastAction = NoAction
    /\ nCommands = 0
    /\ drag = NoDrag
    /\ pending \in SessionProbes
    /\ addOrder = <<>>
    /\ slot = NoSlot
    /\ fold = NoFold
    /\ service = NoService
    /\ loader = NoLoader
    /\ player = NoPlayer

NextSession ==
    \/ HandleMouseDown
    \/ SessionMouseMove
    \/ HandleMouseUp
    \/ VideoProbeResolved
    \/ HandleKeyDown

SpecSession == InitSession /\ [][NextSession]_vars

\* C1: from a timeline without overlaps, after any MOVE, TRIM_START and
\* TRIM_END proposals applied through UPDATE_CLIP no two clips of a track
\* have intersecting intervals.
C1_NoOverlapAfterDrag == NonOverlapping(state.clips)

\* C4: the changes proposed by TRIM_START and TRIM_END have duration >= 0.1
\* and inPoint >= 0.
C4_TrimFloors ==
    (lastAction.type = "UPDATE_CLIP" /\ drag.mode \in {"TRIM_START", "TRIM_END"})
        => /\ lastAction.payload.changes.duration >= 2
           /\ "inPoint" \in DOMAIN lastAction.payload.changes
                 => lastAction.payload.changes.inPoint >= 0

\* the dragged clip as the Store holds it
Dragged == Get(state.clips, drag.clip.id)

\* handleMouseMove has just dispatched the proposal of a drag in this mode
Proposed(mode) == lastAction.type = "UPDATE_CLIP" /\ drag.mode = mode

\* deltaSec of the last pointer event
PointerSec == DeltaSec(drag.pointer.deltaX, drag.view.zoom)

\* the other clips of a track in the state the drag handler reads
Neighbours(trackId) ==
    SelectSeq(drag.view.clips, LAMBDA c : c.trackId = trackId /\ c.id # drag.clip.id)

\* the intervals [s, s + d) and that of clip n intersect
Intersects(s, d, n) == s < EndOf(n) /\ s + d > n.timelineStart

\* the dragged clip is a video or audio clip whose asset is in the Store and
\* covers it when the drag begins
WithinAssetAtStart ==
    /\ drag.clip.type \in {"VIDEO", "AUDIO"}
    /\ drag.clip.assetId \in Keys(drag.view.assets)
    /\ drag.initial.inPoint + drag.initial.duration
          <= Get(drag.view.assets, drag.clip.assetId).duration

\* C12: for a video or audio clip with inPoint + duration <= asset.duration
\* when the drag begins, after every TRIM_START and TRIM_END proposal
\* inPoint + duration <= asset.duration still.
C12_TrimWithinAsset ==
    ((Proposed("TRIM_START") \/ Proposed("TRIM_END")) /\ WithinAssetAtStart)
        => Dragged.inPoint + Dragged.duration
              <= Get(drag.view.assets, drag.clip.assetId).duration

\* C13: for a text clip and for an image clip with no following neighbour on
\* its track, dragging the right edge by +d seconds (below the 3600 s
\* ceiling) yields duration = old duration + d.
C13_TrimEndUncapped ==
    (/\ Proposed("TRIM_END")
     /\ drag.clip.type \in {"TEXT", "IMAGE"}
     /\ \A i \in DOMAIN Neighbours(drag.clip.trackId) :
            Neighbours(drag.clip.trackId)[i].timelineStart < drag.initial.start
     /\ PointerSec >= 0
     /\ drag.initial.inPoint + drag.initial.duration + PointerSec <= TextMaxDuration)
        => Dragged.duration = drag.initial.duration + PointerSec

\* a MOVE proposal onto a track holding exactly one other clip, which the
\* interval under the pointer overlaps
OneNeighbourOverlapped ==
    /\ Proposed("MOVE")
    /\ Len(Neighbours(lastAction.payload.changes.trackId)) = 1
    /\ Intersects(Max(0, drag.initial.start + PointerSec), drag.initial.duration,
                  Neighbours(lastAction.payload.changes.trackId)[1])

\* C14: a MOVE onto a track holding exactly one other clip N that the
\* proposed interval overlaps ends at max(candidate, N.end) when the drag
\* began at or after N's start and at min(candidate, N.start - duration)
\* otherwise, and the resulting interval does not intersect N.
C14_MoveClampOneNeighbour ==
    OneNeighbourOverlapped =>
        LET N == Neighbours(lastAction.payload.changes.trackId)[1]
            candidate == Max(0, drag.initial.start + PointerSec)
            result == lastAction.payload.changes.timelineStart
        IN  /\ result = IF drag.initial.start >= N.timelineStart
                        THEN Max(candidate, EndOf(N))
                        ELSE Min(candidate, N.timelineStart - drag.initial.duration)
            /\ ~Intersects(result, drag.initial.duration, N)
            /\ ~Intersects(Dragged.timelineStart, Dragged.duration, N)

\* a clip was dragged onto another track, over the only clip of that track,
\* and was put behind it
C14_Witness ==
    /\ OneNeighbourOverlapped
    /\ lastAction.payload.changes.trackId # drag.initial.trackId
    /\ Dragged.timelineStart = EndOf(Neighbours(Dragged.trackId)[1])
    /\ Dragged.timelineStart > Max(0, drag.initial.start + PointerSec)

\* C15: after a MOVE that stays on the track, the dragged clip still starts
\* before every other clip of the track it started before when the drag began.
C15_NoJumpOver ==
    (Proposed("MOVE") /\ lastAction.payload.changes.trackId = drag.initial.trackId)
        => \A i \in DOMAIN Neighbours(drag.initial.trackId) :
              LET N == Neighbours(drag.initial.trackId)[i]
              IN  drag.initial.start < N.timelineStart
                     => Dragged.timelineStart < N.timelineStart

\* C16: on a track without overlaps, the timelineStart of every TRIM_START
\* proposal is >= 0 and >= the end of every clip of the track that ends at
\* or before the start the dragged clip had when the drag began (so of the
\* closest one).
C16_TrimStartAfterPrev ==
    (Proposed("TRIM_START") /\ NonOverlapping(drag.view.clips))
        => /\ lastAction.payload.changes.timelineStart >= 0
           /\ \A i \in DOMAIN Neighbours(drag.clip.trackId) :
                 LET P == Neighbours(drag.clip.trackId)[i]
                 IN  EndOf(P) <= drag.initial.start
                        => lastAction.payload.changes.timelineStart >= EndOf(P)

\* the left edge was dragged to the left and stopped at the end of the
\* preceding clip
C16_Witness ==
    /\ Proposed("TRIM_START")
    /\ NonOverlapping(drag.view.clips)
    /\ PointerSec < 0
    /\ Dragged.timelineStart < drag.initial.start
    /\ \E i \in DOMAIN Neighbours(drag.clip.trackId) :
          EndOf(Neighbours(drag.clip.trackId)[i]) = Dragged.timelineStart

\* C17: a TRIM_END proposal changes only the duration (timelineStart, inPoint
\* and trackId stay), and on a track without overlaps the resulting end does
\* not exceed the start of any clip of the track that starts at or after the
\* end the dragged clip had when the drag began (so of the closest one).
C17_TrimEndOnlyDuration ==
    Proposed("TRIM_END")
        => /\ DOMAIN lastAction.payload.changes = {"duration"}
           /\ Dragged.timelineStart = drag.initial.start
           /\ Dragged.inPoint = drag.initial.inPoint
           /\ Dragged.trackId = drag.initial.trackId
           /\ NonOverlapping(drag.view.clips)
                 => \A i \in DOMAIN Neighbours(drag.clip.trackId) :
                       LET F == Neighbours(drag.clip.trackId)[i]
                       IN  F.timelineStart >= drag.initial.start + drag.initial.duration
                              => EndOf(Dragged) <= F.timelineStart

\* the right edge was dragged to the right and stopped at the start of the
\* following clip
C17_Witness ==
    /\ Proposed("TRIM_END")
    /\ NonOverlapping(drag.view.clips)
    /\ PointerSec > 0
    /\ Dragged.duration > drag.initial.duration
    /\ Dragged.duration < drag.initial.duration + PointerSec
    /\ \E i \in DOMAIN Neighbours(drag.clip.trackId) :
          Neighbours(drag.clip.trackId)[i].timelineStart = EndOf(Dragged)

\* C32: a TRIM_START proposal keeps the right edge of the clip and the
\* timeline position of its source: timelineStart + duration and
\* timelineStart - inPoint are those the clip had when the drag began.
C32_TrimStartKeepsEdge ==
    Proposed("TRIM_START") =>
        /\ Dragged.timelineStart + Dragged.duration
              = drag.initial.start + drag.initial.duration
        /\ Dragged.timelineStart - Dragged.inPoint
              = drag.initial.start - drag.initial.inPoint

\* the left edge was pulled past the start of the source and was floored
C32_Witness ==
    /\ Proposed("TRIM_START")
    /\ drag.initial.inPoint > 0
    /\ drag.initial.inPoint + PointerSec < 0
    /\ Dragged.inPoint = 0
    /\ Dragged.duration = drag.initial.duration + drag.initial.inPoint

\* the row index brought into 0 .. n - 1
ClampedRow(index, n) == Min(Max(index, 0), n - 1)

\* C31: a MOVE whose pointer is over row r of the timeline puts the clip on
\* the track at row min(max(r, 0), n - 1) of the n tracks.
C31_RowClamped ==
    (Proposed("MOVE") /\ drag.pointer.row.hasRect) =>
        Dragged.trackId
            = drag.view.tracks[ClampedRow(drag.pointer.row.index,
                                          Len(drag.view.tracks)) + 1].id

\* C30: every clip of the Store starts at or after 0, whatever the drags
\* proposed.
C30_NonNegativeStart ==
    \A i \in DOMAIN state.clips : state.clips[i].timelineStart >= 0

----------------------------------------------------------------------------
(* services/ffmpegService.ts: the order in which exportVideo folds the     *)
(* clips of the state it is given onto the running video stream.           *)

\* const activeClips = Object.values(state.clips).sort((a, b) => a.zIndex - b.zIndex)
ActiveClips(s) == SortByZIndex(s.clips)

\* the clip pushes an overlay or a drawtext node and becomes lastVideoLabel
FoldsVideo(s, clip) ==
    \/ /\ clip.type \in {"VIDEO", "IMAGE"}
       /\ clip.assetId # Undefined
       /\ clip.assetId \in Keys(s.assets)
    \/ /\ clip.type = "TEXT"
       /\ clip.textData # <<>>

FoldOrder(s) ==
    LET folded == SelectSeq(ActiveClips(s), LAMBDA c : FoldsVideo(s, c))
    IN  [i \in DOMAIN folded |-> folded[i].id]

\* a stream label of the filter graph: [base], [clip3_v], [tmp_v3], [aud3], [outa]
Label(name, idx) == [name |-> name, idx |-> idx]

BaseLabel == Label("base", -1)

OutALabel == Label("outa", -1)

\* assetInputMap.get(id) === undefined
NoInput == -1

\* one entry of filterChain: the filter, the clip it was pushed for, the
\* input file it reads, the labels it consumes and the label it produces
Node(op, clipId, input, from, out, params) ==
    [op |-> op, clip |-> clipId, input |-> input, from |-> from, out |-> out,
     params |-> params]

\* the canvas pushed with a fixed 1920x1080 size
ColorNode_FixedSize(s) ==
    Node("color", Null, NoInput, <<>>, BaseLabel,
         [width |-> 1920, height |-> 1080, d |-> s.duration])

\* color=c=black:s=WxH:d=duration[base]
ColorNode(s) ==
    Node("color", Null, NoInput, <<>>, BaseLabel,
         [width |-> s.canvasSize.width, height |-> s.canvasSize.height,
          d |-> s.duration])

\* activeClips.map(c => c.assetId).filter(Boolean) without the Set: one
\* entry for every clip that has an asset
UniqueAssets_PerClip(clips) ==
    LET withAsset == SelectSeq(clips, LAMBDA c : c.assetId # Undefined)
    IN  [k \in DOMAIN withAsset |-> withAsset[k].assetId]

\* new Set(activeClips.map(c => c.assetId).filter(Boolean)): the asset ids in
\* the order the sorted clips first use them
UniqueAssets(clips) ==
    LET uniq[k \in 0..Len(clips)] ==
            IF k = 0 THEN <<>>
            ELSE IF /\ clips[k].assetId # Undefined
                    /\ \A j \in 1..Len(uniq[k - 1]) : uniq[k - 1][j] # clips[k].assetId
                 THEN Append(uniq[k - 1], clips[k].assetId)
                 ELSE uniq[k - 1]
    IN  uniq[Len(clips)]

\* the asset ids behind inputArgs, in input order: the loop over uniqueAssets
\* skips the ids state.assets does not have
AssetInputs(s) ==
    SelectSeq(UniqueAssets(ActiveClips(s)), LAMBDA id : id \in Keys(s.assets))

\* assetInputMap.get(assetId)
InputIndex(inputs, assetId) ==
    IF \E i \in DOMAIN inputs : inputs[i] = assetId
    THEN (CHOOSE i \in DOMAIN inputs : inputs[i] = assetId) - 1
    ELSE NoInput

\* fadeFilter of exportVideo: ,fade=t=in:st=0:d=... ,fade=t=out:st=duration-out:d=...
FadeFilter(clip) ==
    IF clip.transition = <<>> THEN <<>>
    ELSE (IF clip.transition[1].inDuration > 0
          THEN <<[t |-> "in", st |-> 0, d |-> clip.transition[1].inDuration]>>
          ELSE <<>>)
         \o (IF clip.transition[1].outDuration > 0
             THEN <<[t |-> "out",
                     st |-> clip.duration - clip.transition[1].outDuration,
                     d |-> clip.transition[1].outDuration]>>
             ELSE <<>>)

\* fadeFilter of POST: the fades start at timelineStart and at
\* timelineStart + duration - outDuration
ServerFadeFilter(clip) ==
    IF clip.transition = <<>> THEN <<>>
    ELSE (IF clip.transition[1].inDuration > 0
          THEN <<[t |-> "in", st |-> clip.timelineStart,
                  d |-> clip.transition[1].inDuration]>>
          ELSE <<>>)
         \o (IF clip.transition[1].outDuration > 0
             THEN <<[t |-> "out",
                     st |-> clip.timelineStart + clip.duration
                            - clip.transition[1].outDuration,
                     d |-> clip.transition[1].outDuration]>>
             ELSE <<>>)

\* [i:v]trim / loop,setpts=PTS-STARTPTS+start/TB,...fades[clipN_v]
SourceNode(clip, idx, inputIdx) ==
    Node("source", clip.id, inputIdx, <<>>, Label("clip_v", idx),
         [loop |-> clip.type = "IMAGE",
          trimStart |-> IF clip.type = "IMAGE" THEN 0 ELSE clip.inPoint,
          trimEnd |-> IF clip.type = "IMAGE" THEN clip.duration
                      ELSE clip.inPoint + clip.duration,
          shift |-> clip.timelineStart,
          fades |-> FadeFilter(clip)])

\* the same chain as POST builds it
ServerSourceNode(clip, idx, inputIdx) ==
    Node("source", clip.id, inputIdx, <<>>, Label("clip_v", idx),
         [loop |-> clip.type = "IMAGE",
          trimStart |-> IF clip.type = "IMAGE" THEN 0 ELSE clip.inPoint,
          trimEnd |-> IF clip.type = "IMAGE" THEN clip.duration
                      ELSE clip.inPoint + clip.duration,
          shift |-> clip.timelineStart,
          fades |-> ServerFadeFilter(clip)])

\* the expression between(t, min, max) of an enable option: 1 when
\* min <= t <= max
Between(x, min, max) == min <= x /\ x <= max

\* the node is enabled on the frame with timestamp x
EnabledAt(node, x) == Between(x, node.params.enableFrom, node.params.enableTo)

\* an overlay that always draws onto the canvas [base]
OverlayNode_OnBase(clip, idx, last, out) ==
    Node("overlay", clip.id, NoInput, <<BaseLabel, Label("clip_v", idx)>>, out,
         [enableFrom |-> clip.timelineStart,
          enableTo |-> clip.timelineStart + clip.duration])

\* [last][clipN_v]overlay=...:enable='between(t,start,start+duration)'[out]
OverlayNode(clip, idx, last, out) ==
    Node("overlay", clip.id, NoInput, <<last, Label("clip_v", idx)>>, out,
         [enableFrom |-> clip.timelineStart,
          enableTo |-> clip.timelineStart + clip.duration])

\* [last]drawtext=...:enable='between(t,start,start+duration)'[out]
DrawTextNode(clip, last, out) ==
    Node("drawtext", clip.id, NoInput, <<last>>, out,
         [enableFrom |-> clip.timelineStart,
          enableTo |-> clip.timelineStart + clip.duration])

\* [i:a]atrim=...,asetpts=PTS-STARTPTS,volume=v,adelay=ms|ms[audN]
AudioNode(clip, idx, inputIdx) ==
    Node("audio", clip.id, inputIdx, <<>>, Label("aud", idx),
         [trimStart |-> clip.inPoint, trimEnd |-> clip.inPoint + clip.duration,
          volume |-> clip.volume, delayMs |-> clip.timelineStart * 50])

\* the callback of activeClips.forEach without the returns of the video /
\* image branch
ClientClipNodes_NoSkip(s, inputs, clip, idx, last) ==
    LET inputIdx == IF clip.assetId = Undefined THEN NoInput
                    ELSE InputIndex(inputs, clip.assetId)
        isVisual == clip.type \in {"VIDEO", "IMAGE"}
        visual == IF isVisual
                  THEN <<SourceNode(clip, idx, inputIdx),
                         OverlayNode(clip, idx, last, Label("tmp_v", idx))>>
                  ELSE <<>>
        last1 == IF visual # <<>> THEN Label("tmp_v", idx) ELSE last
        isText == clip.type = "TEXT" /\ clip.textData # <<>>
        text == IF isText THEN <<DrawTextNode(clip, last1, Label("tmp_v", idx))>>
                ELSE <<>>
        last2 == IF isText THEN Label("tmp_v", idx) ELSE last1
        wantsAudio == \/ clip.type = "AUDIO"
                      \/ clip.type = "VIDEO" /\ clip.volume # 0
        hasAudio == /\ wantsAudio
                    /\ inputIdx # NoInput
                    /\ Get(s.assets, clip.assetId).type # "image"
        audio == IF hasAudio THEN <<AudioNode(clip, idx, inputIdx)>> ELSE <<>>
    IN  [nodes |-> visual \o text \o audio,
         last |-> last2,
         audio |-> IF hasAudio THEN <<Label("aud", idx)>> ELSE <<>>]

\* the callback of activeClips.forEach for the clip at position idx: the
\* nodes it pushes, lastVideoLabel after it and the labels it adds to
\* audioMixLabels; a return in the video / image branch leaves the callback
ClientClipNodes(s, inputs, clip, idx, last) ==
    LET inputIdx == IF clip.assetId = Undefined THEN NoInput
                    ELSE InputIndex(inputs, clip.assetId)
        isVisual == clip.type \in {"VIDEO", "IMAGE"}
        returned == isVisual /\ inputIdx = NoInput
        visual == IF isVisual /\ ~returned
                  THEN <<SourceNode(clip, idx, inputIdx),
                         OverlayNode(clip, idx, last, Label("tmp_v", idx))>>
                  ELSE <<>>
        last1 == IF visual # <<>> THEN Label("tmp_v", idx) ELSE last
        isText == ~returned /\ clip.type = "TEXT" /\ clip.textData # <<>>
        text == IF isText THEN <<DrawTextNode(clip, last1, Label("tmp_v", idx))>>
                ELSE <<>>
        last2 == IF isText THEN Label("tmp_v", idx) ELSE last1
        wantsAudio == /\ ~returned
                      /\ \/ clip.type = "AUDIO"
                         \/ clip.type = "VIDEO" /\ clip.volume # 0
        hasAudio == /\ wantsAudio
                    /\ inputIdx # NoInput
                    /\ Get(s.assets, clip.assetId).type # "image"
        audio == IF hasAudio THEN <<AudioNode(clip, idx, inputIdx)>> ELSE <<>>
    IN  [nodes |-> visual \o text \o audio,
         last |-> last2,
         audio |-> IF hasAudio THEN <<Label("aud", idx)>> ELSE <<>>]

\* app/api/export/route.ts: the callback of clips.forEach; files are the ids
\* of the assets that were downloaded, in the order of assetFiles
ServerClipNodes(s, files, clip, idx, last) ==
    LET inputIdx == IF clip.assetId = Undefined THEN NoInput
                    ELSE InputIndex(files, clip.assetId)
        isVisual == clip.type \in {"VIDEO", "IMAGE"}
        returned == isVisual /\ inputIdx = NoInput
        visual == IF isVisual /\ ~returned
                  THEN <<ServerSourceNode(clip, idx, inputIdx),
                         OverlayNode(clip, idx, last, Label("tmp", idx))>>
                  ELSE <<>>
        last1 == IF visual # <<>> THEN Label("tmp", idx) ELSE last
        isText == ~returned /\ clip.type = "TEXT" /\ clip.textData # <<>>
        text == IF isText THEN <<DrawTextNode(clip, last1, Label("tmp", idx))>>
                ELSE <<>>
        last2 == IF isText THEN Label("tmp", idx) ELSE last1
        hasAudio == /\ ~returned
                    /\ clip.type \in {"AUDIO", "VIDEO"}
                    /\ clip.assetId # Undefined
                    /\ inputIdx # NoInput
                    /\ clip.volume > 0
        audio == IF hasAudio THEN <<AudioNode(clip, idx, inputIdx)>> ELSE <<>>
    IN  [nodes |-> visual \o text \o audio,
         last |-> last2,
         audio |-> IF hasAudio THEN <<Label("aud", idx)>> ELSE <<>>]

\* "4. Final Outputs": the amix node and the -map arguments
FinalOutputs(inputs, chain, last, audio) ==
    [inputs |-> inputs,
     filterChain |-> IF audio # <<>>
                     THEN Append(chain, Node("amix", Null, NoInput, audio, OutALabel,
                                             [inputs |-> Len(audio)]))
                     ELSE chain,
     mapArgs |-> IF audio # <<>> THEN <<last, OutALabel>> ELSE <<last>>]

\* steps 2 to 4 of exportVideo: inputs, filter graph and output mapping
ClientGraph(s) ==
    LET clips == ActiveClips(s)
        inputs == AssetInputs(s)
        acc[k \in 0..Len(clips)] ==
            IF k = 0
            THEN [chain |-> <<ColorNode(s)>>, last |-> BaseLabel, audio |-> <<>>]
            ELSE LET r == ClientClipNodes(s, inputs, clips[k], k - 1, acc[k - 1].last)
                 IN  [chain |-> acc[k - 1].chain \o r.nodes,
                      last |-> r.last,
                      audio |-> acc[k - 1].audio \o r.audio]
    IN  FinalOutputs(inputs, acc[Len(clips)].chain, acc[Len(clips)].last,
                     acc[Len(clips)].audio)

\* step 3 of POST: the arguments built from the downloaded files
ServerGraph(s, files) ==
    LET clips == ActiveClips(s)
        acc[k \in 0..Len(clips)] ==
            IF k = 0
            THEN [chain |-> <<ColorNode(s)>>, last |-> BaseLabel, audio |-> <<>>]
            ELSE LET r == ServerClipNodes(s, files, clips[k], k - 1, acc[k - 1].last)
                 IN  [chain |-> acc[k - 1].chain \o r.nodes,
                      last |-> r.last,
                      audio |-> acc[k - 1].audio \o r.audio]
    IN  FinalOutputs(files, acc[Len(clips)].chain, acc[Len(clips)].last,
                     acc[Len(clips)].audio)

\* the ids of a sequence of ids
Range(seq) == {seq[i] : i \in DOMAIN seq}

\* exportVideo(state, onProgress) up to the filter graph; the record keeps
\* the state that was compiled, the order the clips had been added in and
\* the assets that were resolved
ExportVideo ==
    /\ fold' = [done |-> TRUE, route |-> "client", order |-> FoldOrder(state),
                clips |-> state.clips, added |-> addOrder, input |-> state,
                resolved |-> Range(AssetInputs(state)),
                graph |-> ClientGraph(state)]
    /\ UNCHANGED <<state, state2, lastAction, nCommands, drag, pending, addOrder, slot, service, loader, player>>

\* the sequences without repetition over a set of ids: the orders in which
\* the downloads of Promise.all can complete
Orders(ids) ==
    {f \in UNION {[1..n -> ids] : n \in 0..Cardinality(ids)} :
        \A i, j \in DOMAIN f : i # j => f[i] # f[j]}

\* the assets POST tries to download: used by a clip, in state.assets, with
\* an http url
Downloadable(s) ==
    {id \in Range(UniqueAssets(ActiveClips(s))) :
        id \in Keys(s.assets) /\ Get(s.assets, id).url = "http"}

\* POST(req) of the export route: every download succeeds or fails and
\* assetFiles is in completion order, ffmpeg is run on the arguments and the
\* response is the video (200) or, when ffmpeg or the read of its output
\* fails, the error (500)
PostExport ==
    /\ \E files \in Orders(Downloadable(state)) :
          LET compiled == [done |-> TRUE, route |-> "server", order |-> FoldOrder(state),
                           clips |-> state.clips, added |-> addOrder, input |-> state,
                           resolved |-> Range(files),
                           graph |-> ServerGraph(state, files),
                           attempted |-> Downloadable(state),
                           encoderInvoked |-> TRUE,
                           status |-> 200]
          IN  \E encoded \in BOOLEAN :
                  fold' = IF encoded THEN compiled ELSE [compiled EXCEPT !.status = 500]
    /\ UNCHANGED <<state, state2, lastAction, nCommands, drag, pending, addOrder, slot, service, loader, player>>

NextExport ==
    \/ AddAsset
    \/ AddClip
    \/ AddClipSmart
    \/ UpdateClip
    \/ RemoveClip
    \/ ExportVideo

SpecExport == Init /\ [][NextExport]_vars

\* position of the clip id in a sequence of ids
Rank(order, id) == CHOOSE i \in DOMAIN order : order[i] = id

\* C7: the clips are folded in ascending zIndex order, and of two clips with
\* equal zIndex the one added to the Store earlier is folded earlier.
C7_FoldOrderStable ==
    fold.done =>
        \A i, j \in DOMAIN fold.order :
            i < j =>
                LET ci == Get(fold.clips, fold.order[i])
                    cj == Get(fold.clips, fold.order[j])
                IN  /\ ci.zIndex <= cj.zIndex
                    /\ ci.zIndex = cj.zIndex
                          => Rank(fold.added, ci.id) < Rank(fold.added, cj.id)

----------------------------------------------------------------------------
(* The graph compilation as a function of the TimelineState it is given:   *)
(* exportVideo and POST take any TimelineState, so the states compiled     *)
(* here also hold clips whose asset is missing or of another type.         *)

CompileVideoAsset(url) == [id |-> "k3x9q", type |-> "video", duration |-> 200, url |-> url]

CompileAudioAsset(url) == [id |-> "q9zt1", type |-> "audio", duration |-> 200, url |-> url]

CompileImageAsset(url) == [id |-> "52319", type |-> "image", duration |-> 100, url |-> url]

\* blob: urls come from addAsset(file), http urls from addVideoClip(url)
AssetUrls == {"http", "blob"}

\* state.assets: each of the three assets is absent or present
CompileAssets ==
    {i \o v \o a :
        i \in {<<>>} \cup {<<CompileImageAsset(u)>> : u \in AssetUrls},
        v \in {<<>>} \cup {<<CompileVideoAsset(u)>> : u \in AssetUrls},
        a \in {<<>>} \cup {<<CompileAudioAsset(u)>> : u \in AssetUrls}}

\* the clip "k3x9q" on track 1: a video clip at volume 1 or 0, or a video
\* clip over the image asset
CompileFirstClips ==
    {<<>>}
    \cup {<<[NewClip("k3x9q", "k3x9q", 1, "VIDEO", 0, 60) EXCEPT !.volume = v]>> :
              v \in {0, 1}}
    \cup {<<NewClip("k3x9q", "52319", 1, "VIDEO", 0, 60)>>}

\* the clip "q9zt1" with zIndex 1: an audio clip at volume 1 or 0, or a text
\* clip
CompileSecondClips ==
    {<<>>}
    \cup {<<[NewClip("q9zt1", "q9zt1", 1, "AUDIO", 60, 40) EXCEPT !.volume = v]>> :
              v \in {0, 1}}
    \cup {<<NewClip("q9zt1", Undefined, 1, "TEXT", 60, 40)>>}

\* the clip "52319" on track 2: an image clip, a video clip, with or without
\* fades, or a text clip that has lost its textData
CompileThirdClips ==
    {<<>>, <<NewClip("52319", "52319", 2, "IMAGE", 0, 100)>>,
     <<NewClip("52319", "k3x9q", 2, "VIDEO", 20, 60)>>,
     <<[NewClip("52319", "k3x9q", 2, "VIDEO", 20, 60)
           EXCEPT !.transition = <<[inDuration |-> 10, outDuration |-> 0]>>]>>,
     <<[NewClip("52319", "52319", 2, "IMAGE", 40, 100)
           EXCEPT !.transition = <<[inDuration |-> 10, outDuration |-> 20]>>]>>,
     <<[NewClip("52319", Undefined, 2, "TEXT", 0, 100) EXCEPT !.textData = <<>>]>>}

\* state.clips, in the key order of the object
CompileClips ==
    {c3 \o c1 \o c2 : c1 \in CompileFirstClips, c2 \in CompileSecondClips,
                      c3 \in CompileThirdClips}

InitCompile ==
    /\ \E clips \in CompileClips, assets \in CompileAssets,
          canvasSize \in {Canvas1080, Canvas720} :
          state = [createInitialState EXCEPT !.clips = clips, !.assets = assets,
                                              !.canvasSize = canvasSize]
    /\ state2 = createInitialState
    /\ lastAction = NoAction
    /\ nCommands = 0
    /\ drag = NoDrag
    /\ pending = <<>>
    /\ addOrder = <<>>
    /\ slot = NoSlot
    /\ fold = NoFold
    /\ service = NoService
    /\ loader = NoLoader
    /\ player = NoPlayer

\* one compilation of the given state, by either route
CompileClient == ~fold.done /\ ExportVideo

CompileServer == ~fold.done /\ PostExport

NextCompile ==
    \/ CompileClient
    \/ CompileServer

SpecCompile == InitCompile /\ [][NextCompile]_vars

\* the nodes of the compiled graph pushed for a clip
NodesOf(id) == SelectSeq(fold.graph.filterChain, LAMBDA n : n.clip = id)

\* the overlay and drawtext nodes of the compiled graph, in graph order
Folds == SelectSeq(fold.graph.filterChain, LAMBDA n : n.op \in {"overlay", "drawtext"})

\* the audio chains of the compiled graph
AudioChains == SelectSeq(fold.graph.filterChain, LAMBDA n : n.op = "audio")

\* the amix nodes of the compiled graph
MixNodes == SelectSeq(fold.graph.filterChain, LAMBDA n : n.op = "amix")

\* the clip refers to an asset that state.assets does not have
AssetMissing(clip) ==
    clip.assetId # Undefined /\ clip.assetId \notin Keys(fold.input.assets)

\* the clip is one the graph has to fold onto the video stream
Foldable(clip) ==
    \/ clip.type \in {"VIDEO", "IMAGE"} /\ clip.assetId \in fold.resolved
    \/ clip.type = "TEXT" /\ clip.textData # <<>>

\* C18: a video, image or audio clip whose assetId is absent from
\* state.assets has no node in the compiled graph; the graph is still built,
\* every other clip that folds has one fold node, the fold nodes are in
\* ascending zIndex order and the video output is the label of the last one.
C18_MissingAssetSkipped ==
    fold.done =>
        /\ \A i \in DOMAIN fold.input.clips :
              LET clip == fold.input.clips[i]
              IN  /\ (clip.type \in {"VIDEO", "IMAGE", "AUDIO"} /\ AssetMissing(clip))
                        => NodesOf(clip.id) = <<>>
                  /\ (~AssetMissing(clip) /\ Foldable(clip))
                        => Len(SelectSeq(Folds, LAMBDA n : n.clip = clip.id)) = 1
        /\ fold.graph.filterChain[1].op = "color"
        /\ \A i, j \in DOMAIN Folds :
              i < j => Get(fold.input.clips, Folds[i].clip).zIndex
                          <= Get(fold.input.clips, Folds[j].clip).zIndex
        /\ fold.graph.mapArgs[1] = IF Folds = <<>> THEN BaseLabel
                                   ELSE Folds[Len(Folds)].out

\* a state with a clip whose asset is missing and another clip that folds
\* was compiled by exportVideo
C18_Witness ==
    /\ fold.done
    /\ fold.route = "client"
    /\ \E i \in DOMAIN fold.input.clips :
          /\ fold.input.clips[i].type \in {"VIDEO", "IMAGE", "AUDIO"}
          /\ AssetMissing(fold.input.clips[i])
          /\ fold.input.clips[i].zIndex = 1
    /\ Len(Folds) = 1

\* C19: a TimelineState with no clips compiles to the base canvas node alone
\* (size = canvasSize, duration = state.duration); the video output is the
\* base stream and there is neither an audio mix node nor an audio output.
C19_EmptyTimelineGraph ==
    (fold.done /\ fold.input.clips = <<>>)
        => /\ Len(fold.graph.filterChain) = 1
           /\ fold.graph.filterChain[1].op = "color"
           /\ fold.graph.filterChain[1].out = BaseLabel
           /\ fold.graph.filterChain[1].params
                 = [width |-> fold.input.canvasSize.width,
                    height |-> fold.input.canvasSize.height,
                    d |-> fold.input.duration]
           /\ fold.graph.mapArgs = <<BaseLabel>>
           /\ MixNodes = <<>>

\* exportVideo compiled a 1280x720 timeline without clips
C19_Witness ==
    /\ fold.done
    /\ fold.route = "client"
    /\ fold.input.clips = <<>>
    /\ fold.input.canvasSize = Canvas720

\* the clip is one the graph has to give an audio chain
Audible(clip) ==
    /\ clip.assetId \in fold.resolved
    /\ Get(fold.input.assets, clip.assetId).type # "image"
    /\ \/ clip.type = "AUDIO"
       \/ clip.type = "VIDEO" /\ clip.volume # 0

\* C20: the compiled graph has exactly one audio chain for each audio clip
\* with a resolvable asset and each video clip with a resolvable asset and
\* volume # 0, and none for any other clip (video at volume 0, image, text,
\* backed by an image asset); there is a mix node iff there is a chain, and
\* its input count is the number of chains.
C20_AudioChains ==
    fold.done =>
        /\ \A i \in DOMAIN fold.input.clips :
              LET clip == fold.input.clips[i]
              IN  Len(SelectSeq(AudioChains, LAMBDA n : n.clip = clip.id))
                     = IF Audible(clip) THEN 1 ELSE 0
        /\ Len(MixNodes) = IF AudioChains = <<>> THEN 0 ELSE 1
        /\ \A i \in DOMAIN MixNodes :
              /\ MixNodes[i].params.inputs = Len(AudioChains)
              /\ Len(MixNodes[i].from) = Len(AudioChains)

\* the fades the source chain of a clip has when they are timed on the
\* timeline: in from timelineStart, out ending at timelineStart + duration
TimelineFades(clip) ==
    IF clip.transition = <<>> THEN <<>>
    ELSE (IF clip.transition[1].inDuration > 0
          THEN <<[t |-> "in", st |-> clip.timelineStart,
                  d |-> clip.transition[1].inDuration]>>
          ELSE <<>>)
         \o (IF clip.transition[1].outDuration > 0
             THEN <<[t |-> "out",
                     st |-> clip.timelineStart + clip.duration
                            - clip.transition[1].outDuration,
                     d |-> clip.transition[1].outDuration]>>
             ELSE <<>>)

\* C21: the source chain of a video or image clip, shifted to start at
\* timelineStart, has a fade-in from timelineStart lasting inDuration iff
\* inDuration > 0 and a fade-out from timelineStart + duration - outDuration
\* lasting outDuration iff outDuration > 0, and no other fade.
C21_FadesOnTimeline ==
    fold.done =>
        \A i \in DOMAIN fold.graph.filterChain :
            LET n == fold.graph.filterChain[i]
            IN  (n.op = "source" /\ n.params.shift = Get(fold.input.clips, n.clip).timelineStart)
                    => n.params.fades = TimelineFades(Get(fold.input.clips, n.clip))

\* the frame timestamps around the window of a clip
InstantsAround(clip) ==
    {clip.timelineStart - 1, clip.timelineStart, clip.timelineStart + clip.duration - 1,
     clip.timelineStart + clip.duration, clip.timelineStart + clip.duration + 1}

\* C22: the overlay or drawtext node of a clip is enabled at time t iff
\* timelineStart <= t < timelineStart + duration; at t = timelineStart +
\* duration it is disabled.
C22_EnableHalfOpen ==
    fold.done =>
        \A i \in DOMAIN Folds :
            LET clip == Get(fold.input.clips, Folds[i].clip)
            IN  \A x \in InstantsAround(clip) :
                    EnabledAt(Folds[i], x)
                        <=> (clip.timelineStart <= x /\ x < clip.timelineStart + clip.duration)

----------------------------------------------------------------------------
(* App.tsx handleExport and the steps of FFmpegService.load / exportVideo   *)
(* between their awaits. The Store can be edited while an export waits.     *)

\* the messages of the errors load and exportVideo throw
LoadFailedError == "FFmpeg load failed. Export unavailable in this environment."
NotLoadedError == "FFmpeg not loaded. Please ensure shared headers are set."
EncodeFailedError_AsMissing == "Export succeeded but output file was missing."
EncodeFailedError == "Export failed during encoding."
OutputMissingError == "Export succeeded but output file was missing."

\* whatever fetchFile or ffmpeg.writeFile rejects with
FetchError == "Failed to fetch"

\* handleExport(): the click on Export; the button is disabled while an
\* export runs. The state of this render is the argument of exportVideo.
HandleExport ==
    /\ service.run.pc \in {"idle", "done"}
    /\ service.nExports < MaxExports
    /\ service' = [service EXCEPT
            !.nExports = @ + 1,
            !.run = [pc |-> "load", n |-> service.nExports + 1, snapshot |-> state,
                     started |-> state, fontTried |-> FALSE, fontOk |-> FALSE,
                     assetsOk |-> TRUE, execCalls |-> 0, graph |-> <<>>,
                     cause |-> "none", error |-> Null, artifact |-> FALSE,
                     delivered |-> FALSE, alerted |-> FALSE]]
    /\ UNCHANGED <<state, state2, lastAction, nCommands, drag, pending, addOrder, slot, fold, loader, player>>

\* the run ends in the catch of handleExport with this error
Thrown(run, cause, error) ==
    [run EXCEPT !.pc = "catch", !.cause = cause, !.error = error]

\* await ffmpegService.load()
Load ==
    /\ service.run.pc = "load"
    /\ \/ /\ service.isLoaded
          /\ service' = [service EXCEPT !.run.pc = "enter"]
       \/ /\ ~service.isLoaded
          /\ \E ok \in BOOLEAN :
                service' = [service EXCEPT
                    !.hasFFmpeg = TRUE,
                    !.listeners = <<>>,
                    !.isLoaded = ok,
                    !.run = IF ok THEN [service.run EXCEPT !.pc = "enter"]
                            ELSE Thrown(service.run, "load", LoadFailedError)]
    /\ UNCHANGED <<state, state2, lastAction, nCommands, drag, pending, addOrder, slot, fold, loader, player>>

\* exportVideo up to its first await: the guard, ffmpeg.on('progress', ...)
\* and the test of fontLoaded
EnterExportVideo ==
    /\ service.run.pc = "enter"
    /\ service' =
          IF ~service.hasFFmpeg \/ ~service.isLoaded
          THEN [service EXCEPT !.run = Thrown(service.run, "notLoaded", NotLoadedError)]
          ELSE [service EXCEPT
                   !.listeners = Append(@, service.run.n),
                   !.run.pc = IF service.fontLoaded THEN "assets" ELSE "font"]
    /\ UNCHANGED <<state, state2, lastAction, nCommands, drag, pending, addOrder, slot, fold, loader, player>>

\* LoadFont with fontLoaded set before the try instead of at its end
LoadFont_MarksLoaded ==
    /\ service.run.pc = "font"
    /\ \E ok \in BOOLEAN :
          service' = [service EXCEPT
              !.fontLoaded = TRUE,
              !.run = [service.run EXCEPT !.pc = "assets", !.fontTried = TRUE,
                                          !.fontOk = ok]]
    /\ UNCHANGED <<state, state2, lastAction, nCommands, drag, pending, addOrder, slot, fold, loader, player>>

\* await ffmpeg.writeFile('font.ttf', await fetchFile(fontUrl)) in its try
LoadFont ==
    /\ service.run.pc = "font"
    /\ \E ok \in BOOLEAN :
          service' = [service EXCEPT
              !.fontLoaded = ok,
              !.run = [service.run EXCEPT !.pc = "assets", !.fontTried = TRUE,
                                          !.fontOk = ok]]
    /\ UNCHANGED <<state, state2, lastAction, nCommands, drag, pending, addOrder, slot, fold, loader, player>>

\* WriteAssets compiling the Store's state of the moment the files are
\* written instead of the state exportVideo was called with
WriteAssets_LiveState ==
    /\ service.run.pc = "assets"
    /\ \E ok \in IF AssetInputs(state) = <<>> THEN {TRUE} ELSE BOOLEAN :
          service' = [service EXCEPT
              !.run = IF ok
                      THEN [service.run EXCEPT
                               !.pc = "exec",
                               !.graph = <<ClientGraph(state)>>,
                               !.execCalls = 1]
                      ELSE [Thrown(service.run, "asset", FetchError)
                               EXCEPT !.assetsOk = FALSE]]
    /\ UNCHANGED <<state, state2, lastAction, nCommands, drag, pending, addOrder, slot, fold, loader, player>>

\* the loop that fetches and writes the asset files, then the synchronous
\* build of the filter graph and the call of ffmpeg.exec
WriteAssets ==
    /\ service.run.pc = "assets"
    /\ \E ok \in IF AssetInputs(service.run.snapshot) = <<>> THEN {TRUE} ELSE BOOLEAN :
          service' = [service EXCEPT
              !.run = IF ok
                      THEN [service.run EXCEPT
                               !.pc = "exec",
                               !.graph = <<ClientGraph(service.run.snapshot)>>,
                               !.execCalls = 1]
                      ELSE [Thrown(service.run, "asset", FetchError)
                               EXCEPT !.assetsOk = FALSE]]
    /\ UNCHANGED <<state, state2, lastAction, nCommands, drag, pending, addOrder, slot, fold, loader, player>>

\* await ffmpeg.exec(execArgs) in its try
Exec ==
    /\ service.run.pc = "exec"
    /\ \E ok \in BOOLEAN :
          service' = [service EXCEPT
              !.run = IF ok THEN [service.run EXCEPT !.pc = "read"]
                      ELSE Thrown(service.run, "exec", EncodeFailedError)]
    /\ UNCHANGED <<state, state2, lastAction, nCommands, drag, pending, addOrder, slot, fold, loader, player>>

\* await ffmpeg.readFile('output.mp4') in its try; the Blob is returned
ReadOutput ==
    /\ service.run.pc = "read"
    /\ \E ok \in BOOLEAN :
          service' = [service EXCEPT
              !.run = IF ok THEN [service.run EXCEPT !.pc = "deliver", !.artifact = TRUE]
                      ELSE Thrown(service.run, "read", OutputMissingError)]
    /\ UNCHANGED <<state, state2, lastAction, nCommands, drag, pending, addOrder, slot, fold, loader, player>>

\* the rest of handleExport: onExport(blob) or the download, or the alert of
\* the catch; finally isExporting is false again
FinishExport ==
    /\ service.run.pc \in {"deliver", "catch"}
    /\ service' = [service EXCEPT
            !.run = [service.run EXCEPT
                        !.pc = "done",
                        !.delivered = (service.run.pc = "deliver"),
                        !.alerted = (service.run.pc = "catch")]]
    /\ UNCHANGED <<state, state2, lastAction, nCommands, drag, pending, addOrder, slot, fold, loader, player>>

\* the commands the user can issue while the export runs
OrchCommands ==
    {[type |-> "ADD_CLIP_SMART",
      payload |-> [assetId |-> Undefined, trackId |-> 1,
                   duration |-> TextClipDuration, type |-> "TEXT"]],
     [type |-> "UPDATE_CLIP", payload |-> [id |-> "k3x9q", changes |-> [timelineStart |-> 540]]],
     [type |-> "REMOVE_CLIP", payload |-> "k3x9q"],
     [type |-> "SET_CANVAS_SIZE", payload |-> Canvas720]}

EditTimeline ==
    /\ nCommands < MaxOrchCommands
    /\ \E a \in OrchCommands : Dispatch(a)
    /\ UNCHANGED <<state2, drag, pending, slot, fold, service, loader, player>>

\* the timelines the exports start from: empty, or a video clip with its
\* asset, alone or under a text clip
OrchLayouts ==
    {<<>>,
     <<NewClip("k3x9q", "k3x9q", 1, "VIDEO", 0, 60)>>,
     <<NewClip("k3x9q", "k3x9q", 1, "VIDEO", 0, 60),
       NewClip("q9zt1", Undefined, 3, "TEXT", 0, 100)>>}

InitOrch ==
    /\ \E clips \in OrchLayouts :
          state = [createInitialState EXCEPT
                      !.clips = clips,
                      !.assets = IF clips = <<>> THEN <<>>
                                 ELSE <<CompileVideoAsset("http")>>]
    /\ state2 = createInitialState
    /\ lastAction = NoAction
    /\ nCommands = 0
    /\ drag = NoDrag
    /\ pending = <<>>
    /\ addOrder = <<>>
    /\ slot = NoSlot
    /\ fold = NoFold
    /\ service = NoService
    /\ loader = NoLoader
    /\ player = NoPlayer

NextOrch ==
    \/ HandleExport
    \/ Load
    \/ EnterExportVideo
    \/ LoadFont
    \/ WriteAssets
    \/ Exec
    \/ ReadOutput
    \/ FinishExport
    \/ EditTimeline

SpecOrch == InitOrch /\ [][NextOrch]_vars

\* the export has returned to handleExport, with a Blob or with an error
Ended == service.run.pc \in {"deliver", "catch", "done"}

BackendErrors == {LoadFailedError, NotLoadedError}

\* C23: an export ends with the artifact or with one error, never both; the
\* message of the error tells a failed or missing load, a thrown execution
\* and a failed read of the output apart.
C23_ExportOutcome ==
    Ended =>
        LET run == service.run
        IN  /\ run.artifact <=> run.error = Null
            /\ run.artifact <=> run.cause = "none"
            /\ run.cause \in {"load", "notLoaded"} <=> run.error \in BackendErrors
            /\ run.cause = "exec" <=> run.error = EncodeFailedError
            /\ run.cause = "read" <=> run.error = OutputMissingError

C23_Witness ==
    /\ service.run.pc = "done"
    /\ service.run.cause = "exec"
    /\ service.run.alerted
    /\ service.nExports = 2
    /\ service.isLoaded

\* the drawtext nodes of a graph
DrawTextsOf(graph) == SelectSeq(graph.filterChain, LAMBDA n : n.op = "drawtext")

\* the text clips of a state that exportVideo draws
TextClipsOf(s) ==
    SelectSeq(ActiveClips(s), LAMBDA c : c.type = "TEXT" /\ c.textData # <<>>)

\* C24: after a failed font load the export goes on to the asset files, the
\* graph is the one of the state it was given, with a drawtext node for every
\* text clip, the encoder is called, and fontLoaded stays false so that the
\* next export loads the font again; the font step is left out only when an
\* earlier export has loaded the font.
C24_FontFailureNonFatal ==
    LET run == service.run
    IN  /\ (run.pc # "idle" /\ run.fontTried /\ ~run.fontOk) =>
              /\ ~service.fontLoaded
              /\ run.pc \in {"assets", "exec", "read", "deliver", "catch", "done"}
              /\ run.cause \in {"none", "asset", "exec", "read"}
              /\ run.assetsOk /\ run.pc # "assets" =>
                    /\ run.execCalls = 1
                    /\ run.graph = <<ClientGraph(run.snapshot)>>
                    /\ Len(DrawTextsOf(run.graph[1])) = Len(TextClipsOf(run.snapshot))
        /\ (run.pc = "assets" /\ ~run.fontTried) => service.fontLoaded
        /\ (run.pc = "font") => ~service.fontLoaded

C24_Witness ==
    /\ service.run.pc = "done"
    /\ service.run.n = 2
    /\ service.run.fontTried
    /\ ~service.run.fontOk
    /\ service.run.delivered
    /\ TextClipsOf(service.run.snapshot) # <<>>

\* C26: the inputs and the graph of an export are those of the state the
\* Store held when Export was clicked, whatever was dispatched since.
C26_SnapshotAtStart ==
    (service.run.pc # "idle" /\ service.run.execCalls = 1) =>
        /\ service.run.graph = <<ClientGraph(service.run.started)>>
        /\ service.run.graph[1].inputs = AssetInputs(service.run.started)

C26_Witness ==
    /\ service.run.pc = "exec"
    /\ state.clips # service.run.started.clips
    /\ state.canvasSize # service.run.started.canvasSize
    /\ ClientGraph(state) # ClientGraph(service.run.started)

\* the downloaded assets in the order uniqueAssets lists them, which is the
\* order the downloads were started in
FilesInRequestOrder ==
    SelectSeq(UniqueAssets(ActiveClips(fold.input)), LAMBDA id : id \in fold.resolved)

\* C34: the inputs and the graph of the server route are those of the state
\* and of the set of assets that were downloaded, whatever order the
\* downloads completed in.
C34_CompletionOrderIrrelevant ==
    (fold.done /\ fold.route = "server") =>
        /\ fold.graph.inputs = FilesInRequestOrder
        /\ fold.graph = ServerGraph(fold.input, FilesInRequestOrder)

\* the nodes of the compiled graph that produce the label
ProducersOf(label) ==
    {i \in DOMAIN fold.graph.filterChain : fold.graph.filterChain[i].out = label}

\* the labels the compiled graph consumes or maps
UsedLabels ==
    UNION {Range(fold.graph.filterChain[i].from) : i \in DOMAIN fold.graph.filterChain}
        \cup Range(fold.graph.mapArgs)

\* C35: the graph exportVideo compiles is a well-formed chain: every label
\* is produced by exactly one node, and by a node before the one that
\* consumes it; the first overlay or text node draws onto [base], every
\* later one onto the label the fold before it produced; the mapped video
\* output is the label of the last fold, or [base] when no clip folds
C35_WellFormedChain ==
    (fold.done /\ fold.route = "client") =>
        LET chain == fold.graph.filterChain
        IN  /\ \A i, j \in DOMAIN chain : chain[i].out = chain[j].out => i = j
            /\ \A label \in UsedLabels : Cardinality(ProducersOf(label)) = 1
            /\ \A i \in DOMAIN chain : \A k \in DOMAIN chain[i].from :
                    \E j \in 1..(i - 1) : chain[j].out = chain[i].from[k]
            /\ \A k \in DOMAIN Folds :
                    Folds[k].from[1] = IF k = 1 THEN BaseLabel ELSE Folds[k - 1].out
            /\ fold.graph.mapArgs[1] =
                    IF Folds = <<>> THEN BaseLabel ELSE Folds[Len(Folds)].out

\* a compiled graph with two folds and a clip that was skipped
C35_Witness ==
    /\ fold.done
    /\ fold.route = "client"
    /\ Len(Folds) >= 2
    /\ \E id \in Keys(fold.input.clips) : NodesOf(id) = <<>>
    /\ Len(fold.graph.mapArgs) = 2

\* C25: when the bytes of an asset a clip refers to cannot be fetched or
\* written, the export ends with an error, the encoder is not invoked and no
\* artifact is returned; on the server route and in FFmpegService alike.
C25_AssetFailureAborts ==
    /\ (fold.done /\ fold.route = "server" /\ fold.resolved # fold.attempted) =>
          /\ ~fold.encoderInvoked
          /\ fold.status # 200
    /\ (service.run.pc # "idle" /\ ~service.run.assetsOk) =>
          /\ service.run.execCalls = 0
          /\ ~service.run.artifact
          /\ service.run.error # Null

----------------------------------------------------------------------------
(* Properties of the Store *)

\* C28: in every state of the Store the playhead is at or after 0 and the
\* zoom is between 10 and 200 pixels per second, whatever numbers
\* SET_PLAYHEAD and SET_ZOOM were given.
C28_PlayheadAndZoomClamped ==
    /\ state.currentTime >= 0
    /\ MinZoom <= state.zoom
    /\ state.zoom <= MaxZoom

C28_Witness ==
    /\ lastAction.type = "SET_PLAYHEAD"
    /\ lastAction.payload < 0
    /\ state.currentTime = 0
    /\ state.zoom = MinZoom


TrackIdSet == {state.tracks[i].id : i \in DOMAIN state.tracks}

\* C5: in every reachable state the timeline duration is at least the end of
\* every clip plus the 5 s trailing margin.
C5_DurationAutoExtend ==
    \A i \in DOMAIN state.clips :
        state.duration >= state.clips[i].timelineStart + state.clips[i].duration + 100

\* an UPDATE_CLIP has just pushed the end of a clip past the default duration
C5_Witness ==
    /\ lastAction.type = "UPDATE_CLIP"
    /\ lastAction.payload.id \in Keys(state.clips)
    /\ state.duration > DEFAULT_DURATION
    /\ EndOf(Get(state.clips, lastAction.payload.id)) + 100 = state.duration

\* C6: two runs of the same command log end in the same state, clip ids and
\* selection included.
C6_SameLogSameState == state = state2

\* C9: REMOVE_CLIP(id) issued while another, existing clip is selected leaves
\* selectedClipId as it was.
C9_RemoveOtherKeepsSelection ==
    [][(/\ lastAction'.type = "REMOVE_CLIP"
        /\ nCommands' = nCommands + 1
        /\ state.selectedClipId \in Keys(state.clips)
        /\ state.selectedClipId # lastAction'.payload)
       => state'.selectedClipId = state.selectedClipId]_vars

\* C10: UPDATE_CLIP with an id no clip has and UPDATE_TRACK with an id no
\* track has leave every field of the state as it was.
C10_UnknownTargetNoOp ==
    [][(/\ nCommands' = nCommands + 1
        /\ \/ /\ lastAction'.type = "UPDATE_CLIP"
              /\ lastAction'.payload.id \notin Keys(state.clips)
           \/ /\ lastAction'.type = "UPDATE_TRACK"
              /\ lastAction'.payload.id \notin TrackIdSet)
       => state' = state]_vars

\* an UPDATE_CLIP for an id that is not in a non-empty Store was just applied
C10_Witness ==
    /\ lastAction.type = "UPDATE_CLIP"
    /\ lastAction.payload.id \notin Keys(state.clips)
    /\ state.clips # <<>>
    /\ state.selectedClipId # Null

\* C11: REMOVE_CLIP with an id that is not in state.clips leaves every field
\* of the state, selectedClipId included, as it was.
C11_RemoveUnknownNoOp ==
    [][(/\ lastAction'.type = "REMOVE_CLIP"
        /\ nCommands' = nCommands + 1
        /\ lastAction'.payload \notin Keys(state.clips))
       => state' = state]_vars

\* C33: REMOVE_CLIP(id) with id in state.clips removes that clip and nothing
\* else: the other clips, the assets, the tracks, duration, currentTime, zoom
\* and canvasSize stay, and a selection of the removed clip is cleared.
C33_RemoveExactlyThatClip ==
    [][(/\ lastAction'.type = "REMOVE_CLIP"
        /\ nCommands' = nCommands + 1
        /\ lastAction'.payload \in Keys(state.clips))
       => /\ lastAction'.payload \notin Keys(state'.clips)
          /\ state'.clips = SelectSeq(state.clips,
                                LAMBDA c : c.id # lastAction'.payload)
          /\ state'.assets = state.assets
          /\ state'.tracks = state.tracks
          /\ state'.duration = state.duration
          /\ state'.currentTime = state.currentTime
          /\ state'.zoom = state.zoom
          /\ state'.canvasSize = state.canvasSize
          /\ state.selectedClipId = lastAction'.payload
                => state'.selectedClipId = Null]_vars

\* the clip added at 26 s, which raised duration to 34 s, was removed and
\* the other clip is still there
C33_Witness ==
    /\ lastAction.type = "REMOVE_CLIP"
    /\ nCommands = 4
    /\ state.duration = 680
    /\ Len(state.clips) = 1
    /\ EndOf(state.clips[1]) # 580
    /\ state.selectedClipId = Null

\* C36: the MOVE proposal dispatched on a pointer-move event is the one
\* computed against the clips the Store holds at that event, so a clip that
\* was inserted on the target track after the mouse went down is among the
\* neighbours the dragged clip is clamped against.
C36_MoveAgainstStore ==
    [][(/\ drag.mode = "MOVE"
        /\ drag'.mode = "MOVE"
        /\ lastAction'.type = "UPDATE_CLIP"
        /\ nCommands' = nCommands + 1
        /\ drag.clip.id \in Keys(state.clips))
        => lastAction'.payload.changes =
               MoveProposal(state, drag.clip, drag.initial,
                            DeltaSec(drag'.pointer.deltaX, state.zoom),
                            drag'.pointer.row)]_vars

\* C39: once the dragged clip has been removed, the UPDATE_CLIP commands its
\* drag session still dispatches leave the Store as it is: the clip is not
\* re-created and state.duration does not change.
C39_RemovedClipStaysRemoved ==
    [][(/\ drag.mode # Null
        /\ drag.clip.id \notin Keys(state.clips)
        /\ lastAction'.type = "UPDATE_CLIP"
        /\ nCommands' = nCommands + 1)
        => /\ state' = state
           /\ drag.clip.id \notin Keys(state'.clips)
           /\ state'.duration = state.duration]_vars

\* a session whose clip was removed has dispatched a proposal for it
C39_Witness ==
    /\ drag.mode # Null
    /\ drag.clip.id \notin Keys(state.clips)
    /\ lastAction.type = "UPDATE_CLIP"
    /\ lastAction.payload.id = drag.clip.id
    /\ drag.pointer.deltaX # 0

\* C38: while the encoder runs for the k-th export of a service instance,
\* the callbacks a progress event invokes are the callback of the k-th
\* export, once, and no callback of an earlier export.
C38_OwnProgressCallback ==
    service.run.pc = "exec" => service.listeners = <<service.run.n>>

\* C40: in every state the commands reach, selectedClipId is null or the id
\* of a clip state.clips holds.
C40_SelectionExists ==
    state.selectedClipId = Null \/ state.selectedClipId \in Keys(state.clips)

\* the assets of state.assets that a clip of the compiled state refers to
ReferencedAssets ==
    {fold.input.clips[k].assetId : k \in DOMAIN fold.input.clips}
        \cap Keys(fold.input.assets)

\* C37: in the command exportVideo compiles, every asset of state.assets
\* that a clip refers to is exactly one input, however many clips use it,
\* and the video and audio chain of a clip read the input of the clip's
\* own asset.
C37_OneInputPerAsset ==
    (fold.done /\ fold.route = "client") =>
        LET inputs == fold.graph.inputs
            chain == fold.graph.filterChain
        IN  /\ \A a \in ReferencedAssets :
                    Cardinality({i \in DOMAIN inputs : inputs[i] = a}) = 1
            /\ Range(inputs) = ReferencedAssets
            /\ \A i \in DOMAIN chain :
                    chain[i].op \in {"source", "audio"} =>
                        /\ chain[i].input \in 0..(Len(inputs) - 1)
                        /\ inputs[chain[i].input + 1]
                               = Get(fold.input.clips, chain[i].clip).assetId

\* two clips cut from one asset and a clip of another asset were compiled
C37_Witness ==
    /\ fold.done
    /\ fold.route = "client"
    /\ Len(fold.graph.inputs) = 2
    /\ \E i, j \in DOMAIN fold.input.clips :
            /\ i # j
            /\ fold.input.clips[i].assetId = fold.input.clips[j].assetId
            /\ fold.input.clips[i].assetId \in ReferencedAssets
            /\ NodesOf(fold.input.clips[i].id) # <<>>
            /\ NodesOf(fold.input.clips[j].id) # <<>>
    /\ AudioChains # <<>>

====
